---- MODULE Spec2Model ----
(***************************************************************************)
(* Model of the protocol translation layer of copilot-api.                 *)
(*                                                                         *)
(* Part 1: the Responses -> Anthropic stream translator                    *)
(* (translateResponsesStreamEvent and its handlers in                      *)
(* src/routes/messages/non-stream-translation.ts) and the loop that        *)
(* drives it (handleWithResponsesApi in the /v1/messages handler).         *)
(***************************************************************************)
EXTENDS Integers, Sequences, FiniteSets, TLC

(***************************************************************************)
(* Bounds of the model.                                                    *)
(***************************************************************************)
\* upstream chunks one stream delivers before it ends
MaxEvents == 2
\* largest output_index an upstream event carries
MaxOutputIndex == 1
\* argument deltas of the scripted tool-call stream
MaxDeltas == 2
\* events of the scripted stream of two function calls, before completion
MaxSteps == 3
\* largest token count of the scripted tool-call stream
MaxTokens == 1

(***************************************************************************)
(* JavaScript `undefined` for an optional string and an optional number.   *)
(* No id, name or text of the model equals UNDEF; every number of the      *)
(* program (index, token count) is >= 0.                                   *)
(***************************************************************************)
UNDEF == "<undefined>"
NoNumber == 0 - 1

VARIABLES
  streamState,  \* the ResponsesStreamState of the stream
  written,      \* the events written to the client with stream.writeSSE
  pc,           \* position of the stream callback: "loop", "after", "done"
  consumed,     \* number of upstream chunks read by the for-await loop
  lastChunk,    \* the upstream chunk read by the last iteration
  before,       \* streamState when the last iteration began
  lastEvents,   \* the events the last iteration wrote
  scenario,     \* the parameters of a scripted upstream stream, or the
                \* request / argument a handler or translation is applied to
  script,       \* the chunks a scripted upstream stream has still to deliver
  result        \* the value the last translation returned

vars ==
  <<streamState, written, pc, consumed, lastChunk, before, lastEvents,
    scenario, script, result>>

(***************************************************************************)
(* Generic helpers.                                                        *)
(***************************************************************************)
Range(s) == {s[i] : i \in 1..Len(s)}

RemoveFromSeq(s, x) == SelectSeq(s, LAMBDA y : y # x)

MapPut(m, k, v) == [x \in (DOMAIN m) \cup {k} |-> IF x = k THEN v ELSE m[x]]

MapDelete(m, k) == [x \in (DOMAIN m) \ {k} |-> m[x]]

EmptyMap == [x \in {} |-> 0]

(***************************************************************************)
(* Small typed accessors.                                                  *)
(***************************************************************************)
toNumber(value) == IF value = NoNumber THEN 0 ELSE value

toOptionalNumber(value) == value

toNonEmptyString(value) == IF value = "" THEN UNDEF ELSE value

getBlockKey(outputIndex, contentIndex) ==
  ToString(outputIndex) \o ":" \o ToString(contentIndex)

(***************************************************************************)
(* A `response` member of an upstream event.  shape is "absent" when the   *)
(* event has no response member, "partial" when it has one that lacks id,  *)
(* model, output or object, "result" when it is a full ResponsesResult.    *)
(***************************************************************************)
NoResponse ==
  [shape |-> "absent", id |-> UNDEF, model |-> UNDEF, status |-> UNDEF,
   reason |-> UNDEF, input_tokens |-> NoNumber, output_tokens |-> NoNumber,
   cached_tokens |-> NoNumber, output |-> << >>, output_text |-> ""]

isResponsesResult(value) == value.shape = "result"

toResponsesResult(value) == IF isResponsesResult(value) THEN value ELSE NoResponse

(***************************************************************************)
(* JSON.          A JSON value is a record tagged by t; a JSON text is the *)
(* sequence of its lexemes (punctuation, string and number literals, the   *)
(* literals null / true / false, white space, anything else).              *)
(* JSONstringify writes a value as text, JSONparse reads a text.           *)
(***************************************************************************)
MaxJsonLen == 2

Punct(x) == [lex |-> "punct", text |-> x]

JsonNull == [t |-> "null"]

JsonString(x) == [t |-> "str", v |-> x]

JsonArray(items) == [t |-> "arr", items |-> items]

JsonObject(members) == [t |-> "obj", members |-> members]

Member(key, value) == [key |-> key, value |-> value]

EmptyObject == JsonObject(<< >>)

\* a JavaScript string holding a JSON text
JsText(text) == [t |-> "text", text |-> text]

RECURSIVE JSONstringify(_)
RECURSIVE StringifyItems(_)
RECURSIVE StringifyMembers(_)
JSONstringify(value) ==
  CASE value.t = "null" -> << [lex |-> "lit", text |-> "null"] >>
    [] value.t = "bool" -> << [lex |-> "lit", text |-> value.v] >>
    [] value.t = "num" -> << [lex |-> "num", text |-> value.v] >>
    [] value.t = "str" -> << [lex |-> "str", text |-> value.v] >>
    [] value.t = "arr" ->
         << Punct("[") >> \o StringifyItems(value.items) \o << Punct("]") >>
    [] value.t = "obj" ->
         << Punct("{") >> \o StringifyMembers(value.members) \o << Punct("}") >>

StringifyItems(items) ==
  IF items = << >> THEN << >>
  ELSE IF Len(items) = 1 THEN JSONstringify(items[1])
  ELSE JSONstringify(Head(items)) \o << Punct(",") >> \o StringifyItems(Tail(items))

StringifyMembers(members) ==
  IF members = << >> THEN << >>
  ELSE << [lex |-> "str", text |-> Head(members).key], Punct(":") >>
       \o JSONstringify(Head(members).value)
       \o (IF Len(members) = 1 THEN << >>
           ELSE << Punct(",") >> \o StringifyMembers(Tail(members)))

\* JSON.parse throws a SyntaxError
ParseFail == [ok |-> FALSE, value |-> JsonNull, rest |-> << >>]

Parsed(value, rest) == [ok |-> TRUE, value |-> value, rest |-> rest]

\* obj[key] = value: a repeated key keeps its place and takes the later value
PutMember(members, key, value) ==
  IF \E i \in DOMAIN members : members[i].key = key
  THEN [i \in DOMAIN members |->
          IF members[i].key = key THEN Member(key, value) ELSE members[i]]
  ELSE Append(members, Member(key, value))

RECURSIVE ParseValue(_)
RECURSIVE ParseItems(_, _)
RECURSIVE AfterItem(_, _)
RECURSIVE ParseMembers(_, _)
RECURSIVE AfterMember(_, _, _)
ParseValue(ts) ==
  IF ts = << >> THEN ParseFail
  ELSE IF Head(ts).lex = "str" THEN Parsed(JsonString(Head(ts).text), Tail(ts))
  ELSE IF Head(ts).lex = "num"
  THEN Parsed([t |-> "num", v |-> Head(ts).text], Tail(ts))
  ELSE IF Head(ts).lex = "lit"
  THEN Parsed(IF Head(ts).text = "null" THEN JsonNull
              ELSE [t |-> "bool", v |-> Head(ts).text], Tail(ts))
  ELSE IF Head(ts) = Punct("[")
  THEN IF Len(ts) > 1 /\ ts[2] = Punct("]")
       THEN Parsed(JsonArray(<< >>), Tail(Tail(ts)))
       ELSE ParseItems(Tail(ts), << >>)
  ELSE IF Head(ts) = Punct("{")
  THEN IF Len(ts) > 1 /\ ts[2] = Punct("}")
       THEN Parsed(EmptyObject, Tail(Tail(ts)))
       ELSE ParseMembers(Tail(ts), << >>)
  ELSE ParseFail

ParseItems(ts, acc) == AfterItem(ParseValue(ts), acc)

AfterItem(r, acc) ==
  IF ~r.ok \/ r.rest = << >> THEN ParseFail
  ELSE IF Head(r.rest) = Punct(",")
  THEN ParseItems(Tail(r.rest), Append(acc, r.value))
  ELSE IF Head(r.rest) = Punct("]")
  THEN Parsed(JsonArray(Append(acc, r.value)), Tail(r.rest))
  ELSE ParseFail

ParseMembers(ts, acc) ==
  IF Len(ts) < 2 THEN ParseFail
  ELSE IF ts[1].lex # "str" \/ ts[2] # Punct(":") THEN ParseFail
  ELSE AfterMember(ts[1].text, ParseValue(Tail(Tail(ts))), acc)

AfterMember(key, r, acc) ==
  IF ~r.ok \/ r.rest = << >> THEN ParseFail
  ELSE IF Head(r.rest) = Punct(",")
  THEN ParseMembers(Tail(r.rest), PutMember(acc, key, r.value))
  ELSE IF Head(r.rest) = Punct("}")
  THEN Parsed(JsonObject(PutMember(acc, key, r.value)), Tail(r.rest))
  ELSE ParseFail

IsWhiteSpace(lexeme) == lexeme.lex = "ws"

\* the whole text has to be one value
WholeText(r) == IF r.ok /\ r.rest = << >> THEN r ELSE ParseFail

JSONparse(text) ==
  WholeText(ParseValue(SelectSeq(text, LAMBDA lexeme : ~IsWhiteSpace(lexeme))))

\* rawArguments.trim().length === 0
IsBlank(text) == \A i \in DOMAIN text : IsWhiteSpace(text[i])

\* the statements after JSON.parse, were they to omit the `parsed &&` test
ArgumentsFrom_NullIsObject(parsed, rawArguments) ==
  IF ~parsed.ok THEN JsonObject(<< Member("raw_arguments", JsText(rawArguments)) >>)
  ELSE IF parsed.value.t = "arr"
  THEN JsonObject(<< Member("arguments", parsed.value) >>)
  ELSE IF parsed.value.t \in {"obj", "null"} THEN parsed.value
  ELSE JsonObject(<< Member("raw_arguments", JsText(rawArguments)) >>)

\* the statements of parseFunctionCallArguments after JSON.parse
ArgumentsFrom(parsed, rawArguments) ==
  IF ~parsed.ok THEN JsonObject(<< Member("raw_arguments", JsText(rawArguments)) >>)
  ELSE IF parsed.value.t = "arr"
  THEN JsonObject(<< Member("arguments", parsed.value) >>)
  ELSE IF parsed.value.t # "null" /\ parsed.value.t \in {"obj", "null"}
  THEN parsed.value
  ELSE JsonObject(<< Member("raw_arguments", JsText(rawArguments)) >>)

parseFunctionCallArguments(rawArguments) ==
  IF IsBlank(rawArguments) THEN EmptyObject
  ELSE ArgumentsFrom(JSONparse(rawArguments), rawArguments)

\* Array.prototype.join
RECURSIVE Join(_, _)
Join(texts, separator) ==
  IF texts = << >> THEN ""
  ELSE IF Len(texts) = 1 THEN texts[1]
  ELSE Head(texts) \o separator \o Join(Tail(texts), separator)

(***************************************************************************)
(* Responses -> Anthropic, non-streaming pieces used by the stream.        *)
(***************************************************************************)
\* mapResponsesStopReason, were content_filter to fall through to null
mapResponsesStopReason_FilterFallsThrough(response) ==
  IF response.status = "completed" THEN "end_turn"
  ELSE IF response.status = "incomplete" /\ response.reason = "max_output_tokens"
    THEN "max_tokens"
  ELSE IF response.status = "incomplete" /\ response.reason = "tool_use"
    THEN "tool_use"
  ELSE "null"

mapResponsesStopReason(response) ==
  IF response.status = "completed" THEN "end_turn"
  ELSE IF response.status = "incomplete" /\ response.reason = "max_output_tokens"
    THEN "max_tokens"
  ELSE IF response.status = "incomplete" /\ response.reason = "content_filter"
    THEN "end_turn"
  ELSE IF response.status = "incomplete" /\ response.reason = "tool_use"
    THEN "tool_use"
  ELSE "null"

mapResponsesUsage(response) ==
  [input_tokens |-> IF response.input_tokens = NoNumber THEN 0
                    ELSE response.input_tokens,
   output_tokens |-> IF response.output_tokens = NoNumber THEN 0
                     ELSE response.output_tokens]

NoUsage == [input_tokens |-> NoNumber, output_tokens |-> NoNumber]

\* the string a reasoning block contributes (collectFromBlocks)
ReasoningSegment(block) ==
  IF "text" \in DOMAIN block THEN << block.text >>
  ELSE IF "thinking" \in DOMAIN block THEN << block.thinking >>
  ELSE IF "reasoning" \in DOMAIN block THEN << block.reasoning >>
  ELSE << >>

RECURSIVE collectFromBlocks(_)
collectFromBlocks(blocks) ==
  IF blocks = << >> THEN << >>
  ELSE ReasoningSegment(Head(blocks)) \o collectFromBlocks(Tail(blocks))

\* a member that holds a list of blocks, or no blocks when it is absent
BlocksAt(item, member) ==
  IF member \in DOMAIN item THEN item[member] ELSE << >>

\* a member that holds a string, or no segment when it is absent
StringAt(item, member) ==
  IF member \in DOMAIN item THEN << item[member] >> ELSE << >>

\* the segments of a reasoning text are words, "" or the white space " "
IsBlankSegment(segment) == segment \in {"", " "}

RECURSIVE DropLeadingBlank(_)
DropLeadingBlank(segments) ==
  IF segments = << >> THEN << >>
  ELSE IF IsBlankSegment(Head(segments)) THEN DropLeadingBlank(Tail(segments))
  ELSE segments

RECURSIVE DropTrailingBlank(_)
DropTrailingBlank(segments) ==
  IF segments = << >> THEN << >>
  ELSE IF IsBlankSegment(segments[Len(segments)])
  THEN DropTrailingBlank(SubSeq(segments, 1, Len(segments) - 1))
  ELSE segments

\* segments.join("").trim()
JoinTrimmed(segments) == Join(DropTrailingBlank(DropLeadingBlank(segments)), "")

extractReasoningText(item) ==
  JoinTrimmed(collectFromBlocks(BlocksAt(item, "reasoning"))
              \o collectFromBlocks(BlocksAt(item, "summary"))
              \o StringAt(item, "thinking")
              \o StringAt(item, "text"))

\* call.call_id ?? call.id
ToolIdOf(call) ==
  IF "call_id" \in DOMAIN call THEN call.call_id
  ELSE IF "id" \in DOMAIN call THEN call.id
  ELSE UNDEF

\* the block as a list: empty for `null`
createToolUseContentBlock(call) ==
  IF call.name = "" \/ ToolIdOf(call) \in {"", UNDEF} THEN << >>
  ELSE << [type |-> "tool_use", id |-> ToolIdOf(call), name |-> call.name,
           input |-> parseFunctionCallArguments(call.arguments)] >>

createFunctionCallOutputBlock(output) ==
  IF output.output = "" THEN << >>
  ELSE << [type |-> "text", text |-> output.output] >>

\* what one block of a message content adds to the aggregated text
AggregatedPart(block) ==
  IF block.type = "output_text" THEN block.text
  ELSE IF block.type = "refusal" THEN block.refusal
  ELSE IF "text" \in DOMAIN block THEN block.text
  ELSE IF "reasoning" \in DOMAIN block THEN block.reasoning
  ELSE ""

RECURSIVE AggregatedText(_)
AggregatedText(parts) ==
  IF parts = << >> THEN ""
  ELSE AggregatedPart(Head(parts)) \o AggregatedText(Tail(parts))

\* content is [kind |-> "parts", parts |-> ...] when it is an array
combineMessageTextContent(content) ==
  IF content.kind # "parts" THEN "" ELSE AggregatedText(content.parts)

\* item.content, which an item may lack
ContentOf(item) ==
  IF "content" \in DOMAIN item THEN item.content ELSE [kind |-> "undefined"]

TextBlockOf(combinedText) ==
  IF combinedText = "" THEN << >>
  ELSE << [type |-> "text", text |-> combinedText] >>

ThinkingBlockOf(thinkingText) ==
  IF thinkingText = "" THEN << >>
  ELSE << [type |-> "thinking", thinking |-> thinkingText] >>

\* the blocks one output item contributes
MappedItem(item) ==
  CASE item.type = "reasoning" -> ThinkingBlockOf(extractReasoningText(item))
    [] item.type = "function_call" -> createToolUseContentBlock(item)
    [] item.type = "function_call_output" -> createFunctionCallOutputBlock(item)
    [] OTHER -> TextBlockOf(combineMessageTextContent(ContentOf(item)))

RECURSIVE mapOutputToAnthropicContent(_)
mapOutputToAnthropicContent(output) ==
  IF output = << >> THEN << >>
  ELSE MappedItem(Head(output)) \o mapOutputToAnthropicContent(Tail(output))

fallbackContentBlocks(outputText) ==
  IF outputText = "" THEN << >>
  ELSE << [type |-> "text", text |-> outputText] >>

AnthropicContent(contentBlocks, outputText) ==
  IF Len(contentBlocks) > 0 THEN contentBlocks
  ELSE fallbackContentBlocks(outputText)

translateResponsesResultToAnthropic(response) ==
  [id |-> response.id, type |-> "message", role |-> "assistant",
   content |-> AnthropicContent(mapOutputToAnthropicContent(response.output),
                                response.output_text),
   model |-> response.model,
   stop_reason |-> mapResponsesStopReason(response),
   stop_sequence |-> "null",
   usage |-> mapResponsesUsage(response)]

(***************************************************************************)
(* The per-stream state.                                                   *)
(***************************************************************************)
createResponsesStreamState ==
  [messageStartSent |-> FALSE,
   messageCompleted |-> FALSE,
   nextContentBlockIndex |-> 0,
   blockIndexByKey |-> EmptyMap,
   openBlocks |-> << >>,
   blockHasDelta |-> {},
   currentResponseId |-> UNDEF,
   currentModel |-> UNDEF,
   initialInputTokens |-> NoNumber,
   initialInputCachedTokens |-> NoNumber,
   functionCallStateByOutputIndex |-> EmptyMap,
   functionCallOutputIndexByItemId |-> EmptyMap]

(***************************************************************************)
(* A handler works on a context: the state it mutates, the array of events *)
(* it builds, and the block index the last open* call returned.            *)
(***************************************************************************)
Ctx(state, events) == [state |-> state, events |-> events, blockIndex |-> NoNumber]

Push(c, event) == [c EXCEPT !.events = Append(@, event)]

buildErrorEvent(message) ==
  [type |-> "error", error_type |-> "api_error", message |-> message]

cacheResponseMetadata(state, response) ==
  [state EXCEPT
     !.currentResponseId = response.id,
     !.currentModel = response.model,
     !.initialInputTokens =
        IF response.input_tokens = NoNumber THEN 0 ELSE response.input_tokens,
     !.initialInputCachedTokens = response.cached_tokens]

\* the message_start event built from the cached metadata
MessageStart(state, response) ==
  [type |-> "message_start",
   id |-> IF response # NoResponse THEN response.id
          ELSE IF state.currentResponseId # UNDEF THEN state.currentResponseId
          ELSE "response",
   model |-> IF response # NoResponse THEN response.model
             ELSE IF state.currentModel # UNDEF THEN state.currentModel
             ELSE "",
   input_tokens |->
     (IF state.initialInputTokens = NoNumber THEN 0 ELSE state.initialInputTokens)
     - (IF state.initialInputCachedTokens = NoNumber THEN 0
        ELSE state.initialInputCachedTokens),
   output_tokens |-> 0,
   cache_creation_input_tokens |-> state.initialInputCachedTokens]

SendMessageStart(state, response) ==
  Ctx([state EXCEPT !.messageStartSent = TRUE], << MessageStart(state, response) >>)

ensureMessageStart(state, response) ==
  IF state.messageStartSent THEN Ctx(state, << >>)
  ELSE IF response # NoResponse
  THEN SendMessageStart(cacheResponseMetadata(state, response), response)
  ELSE SendMessageStart(state, response)

(***************************************************************************)
(* Opening and closing content blocks.  openBlocks is a JavaScript Set: it *)
(* is kept as the sequence of its members in insertion order, which is the *)
(* order closeAllOpenBlocks iterates in.                                   *)
(***************************************************************************)
IsOpen(state, blockIndex) == blockIndex \in Range(state.openBlocks)

AllocateKey(c, key) ==
  IF key \in DOMAIN c.state.blockIndexByKey THEN c
  ELSE [c EXCEPT
          !.state.nextContentBlockIndex = @ + 1,
          !.state.blockIndexByKey = MapPut(@, key, c.state.nextContentBlockIndex)]

StartBlock(c, blockIndex, contentBlock) ==
  IF IsOpen(c.state, blockIndex) THEN [c EXCEPT !.blockIndex = blockIndex]
  ELSE [c EXCEPT
          !.state.openBlocks = Append(@, blockIndex),
          !.events = Append(@, [type |-> "content_block_start",
                                index |-> blockIndex,
                                block_type |-> contentBlock.type,
                                id |-> contentBlock.id,
                                name |-> contentBlock.name]),
          !.blockIndex = blockIndex]

StartKeyedBlock(c, key, contentBlock) ==
  StartBlock(c, c.state.blockIndexByKey[key], contentBlock)

openTextBlockIfNeeded(c, outputIndex, contentIndex) ==
  StartKeyedBlock(AllocateKey(c, getBlockKey(outputIndex, contentIndex)),
                  getBlockKey(outputIndex, contentIndex),
                  [type |-> "text", id |-> UNDEF, name |-> UNDEF])

openThinkingBlockIfNeeded(c, outputIndex) ==
  StartKeyedBlock(AllocateKey(c, getBlockKey(outputIndex, 0)),
                  getBlockKey(outputIndex, 0),
                  [type |-> "thinking", id |-> UNDEF, name |-> UNDEF])

\* closeBlockIfOpen, were it to forget the block's key as well
closeBlockIfOpen_ForgetKey(c, blockIndex) ==
  IF ~IsOpen(c.state, blockIndex) THEN c
  ELSE [c EXCEPT
          !.state.openBlocks = RemoveFromSeq(@, blockIndex),
          !.state.blockHasDelta = @ \ {blockIndex},
          !.state.blockIndexByKey =
             [k \in {x \in DOMAIN @ : @[x] # blockIndex} |-> @[k]],
          !.events = Append(@, [type |-> "content_block_stop",
                                index |-> blockIndex])]

closeBlockIfOpen(c, blockIndex) ==
  IF ~IsOpen(c.state, blockIndex) THEN c
  ELSE [c EXCEPT
          !.state.openBlocks = RemoveFromSeq(@, blockIndex),
          !.state.blockHasDelta = @ \ {blockIndex},
          !.events = Append(@, [type |-> "content_block_stop",
                                index |-> blockIndex])]

\* closes the block the last open* call returned
CloseReturnedBlock(c) == closeBlockIfOpen(c, c.blockIndex)

RECURSIVE CloseEach(_, _)
CloseEach(c, blocks) ==
  IF blocks = << >> THEN c
  ELSE CloseEach(closeBlockIfOpen(c, Head(blocks)), Tail(blocks))

closeAllOpenBlocks(c) ==
  [CloseEach(c, c.state.openBlocks) EXCEPT
     !.state.functionCallStateByOutputIndex = EmptyMap,
     !.state.functionCallOutputIndexByItemId = EmptyMap]

Delta(blockIndex, deltaType, payload) ==
  [type |-> "content_block_delta", index |-> blockIndex,
   delta_type |-> deltaType, payload |-> payload]

\* events.push(content_block_delta) followed by state.blockHasDelta.add
EmitDelta(c, deltaType, payload) ==
  [c EXCEPT !.events = Append(@, Delta(c.blockIndex, deltaType, payload)),
            !.state.blockHasDelta = @ \cup {c.blockIndex}]

\* events.push(content_block_delta) alone
EmitDeltaUnmarked(c, deltaType, payload) ==
  Push(c, Delta(c.blockIndex, deltaType, payload))

(***************************************************************************)
(* Function-call blocks.                                                   *)
(***************************************************************************)
\* resolveFunctionCallOutputIndex, were it to have no item_id fallback
resolveFunctionCallOutputIndex_OutputIndexOnly(state, rawEvent) ==
  IF rawEvent.output_index # NoNumber
     /\ toOptionalNumber(rawEvent.output_index) # NoNumber
  THEN toOptionalNumber(rawEvent.output_index)
  ELSE NoNumber

resolveFunctionCallOutputIndex(state, rawEvent) ==
  IF rawEvent.output_index # NoNumber
     /\ toOptionalNumber(rawEvent.output_index) # NoNumber
  THEN toOptionalNumber(rawEvent.output_index)
  ELSE IF toNonEmptyString(rawEvent.item_id) # UNDEF
          /\ rawEvent.item_id \in DOMAIN state.functionCallOutputIndexByItemId
  THEN state.functionCallOutputIndexByItemId[rawEvent.item_id]
  ELSE NoNumber

ToolCallName(n) == "tool_call_" \o ToString(n)

\* the new FunctionCallStreamState of openFunctionCallBlock
NewFunctionCallState(blockIndex, toolCallId, name) ==
  [blockIndex |-> blockIndex,
   toolCallId |-> IF toolCallId # UNDEF THEN toolCallId
                  ELSE ToolCallName(blockIndex),
   name |-> IF name # UNDEF THEN name ELSE "function"]

\* RegisterFunctionCall, were it to take the index without advancing the counter
RegisterFunctionCall_NoAdvance(c, outputIndex, toolCallId, name) ==
  IF outputIndex \in DOMAIN c.state.functionCallStateByOutputIndex THEN c
  ELSE [c EXCEPT
          !.state.functionCallStateByOutputIndex =
             MapPut(@, outputIndex,
                    NewFunctionCallState(c.state.nextContentBlockIndex,
                                         toolCallId, name)),
          !.state.functionCallOutputIndexByItemId =
             MapPut(@, NewFunctionCallState(c.state.nextContentBlockIndex,
                                            toolCallId, name).toolCallId,
                    outputIndex)]

\* the `if (!functionCallState)` branch of openFunctionCallBlock
RegisterFunctionCall(c, outputIndex, toolCallId, name) ==
  IF outputIndex \in DOMAIN c.state.functionCallStateByOutputIndex THEN c
  ELSE [c EXCEPT
          !.state.nextContentBlockIndex = @ + 1,
          !.state.functionCallStateByOutputIndex =
             MapPut(@, outputIndex,
                    NewFunctionCallState(c.state.nextContentBlockIndex,
                                         toolCallId, name)),
          !.state.functionCallOutputIndexByItemId =
             MapPut(@, NewFunctionCallState(c.state.nextContentBlockIndex,
                                            toolCallId, name).toolCallId,
                    outputIndex)]

StartFunctionCallBlock(c, outputIndex) ==
  StartBlock(c, c.state.functionCallStateByOutputIndex[outputIndex].blockIndex,
             [type |-> "tool_use",
              id |-> c.state.functionCallStateByOutputIndex[outputIndex].toolCallId,
              name |-> c.state.functionCallStateByOutputIndex[outputIndex].name])

openFunctionCallBlock(c, outputIndex, toolCallId, name) ==
  StartFunctionCallBlock(RegisterFunctionCall(c, outputIndex, toolCallId, name),
                         outputIndex)

\* what extractFunctionCallDetails returns for `undefined`
NoFunctionCall ==
  [outputIndex |-> NoNumber, toolCallId |-> UNDEF, name |-> UNDEF,
   initialArguments |-> UNDEF, itemId |-> UNDEF]

FunctionCallDetails(item, outputIndex) ==
  IF outputIndex = NoNumber THEN NoFunctionCall
  ELSE [outputIndex |-> outputIndex,
        toolCallId |-> IF toNonEmptyString(item.call_id) # UNDEF THEN item.call_id
                       ELSE IF toNonEmptyString(item.id) # UNDEF THEN item.id
                       ELSE ToolCallName(outputIndex),
        name |-> IF toNonEmptyString(item.name) # UNDEF THEN item.name
                 ELSE "function",
        initialArguments |-> item.arguments,
        itemId |-> toNonEmptyString(item.id)]

extractFunctionCallDetails(rawEvent, state) ==
  IF rawEvent.item.type # "function_call" THEN NoFunctionCall
  ELSE FunctionCallDetails(rawEvent.item,
                           resolveFunctionCallOutputIndex(state, rawEvent))

(***************************************************************************)
(* The handlers of translateResponsesStreamEvent.  Each takes the raw      *)
(* event and the state and returns the context after the handler: the new  *)
(* state and the events it returns.  A handler's statements after          *)
(* ensureMessageStart are the operator named <Handler>After.               *)
(***************************************************************************)
handleResponseCreated(rawEvent, state) ==
  IF toResponsesResult(rawEvent.response) # NoResponse
  THEN ensureMessageStart(
         cacheResponseMetadata(state, toResponsesResult(rawEvent.response)),
         toResponsesResult(rawEvent.response))
  ELSE ensureMessageStart(state, NoResponse)

RememberItemId(c, details) ==
  IF details.itemId # UNDEF
  THEN [c EXCEPT !.state.functionCallOutputIndexByItemId =
                    MapPut(@, details.itemId, details.outputIndex)]
  ELSE c

InitialArguments(c, initialArguments) ==
  IF initialArguments # UNDEF /\ initialArguments # ""
  THEN EmitDelta(c, "input_json_delta", initialArguments)
  ELSE c

OutputItemAddedFor(c, details) ==
  IF details = NoFunctionCall THEN c
  ELSE InitialArguments(
         openFunctionCallBlock(RememberItemId(c, details), details.outputIndex,
                               details.toolCallId, details.name),
         details.initialArguments)

OutputItemAddedAfter(rawEvent, c) ==
  OutputItemAddedFor(c, extractFunctionCallDetails(rawEvent, c.state))

handleOutputItemAdded(rawEvent, state) ==
  OutputItemAddedAfter(
    rawEvent, ensureMessageStart(state, toResponsesResult(rawEvent.response)))

Signature(c, encryptedContent) ==
  IF encryptedContent # UNDEF /\ encryptedContent # ""
  THEN EmitDelta(c, "signature_delta", encryptedContent)
  ELSE c

\* OutputItemDoneAfter, were it to leave the block open
OutputItemDoneAfter_NoClose(rawEvent, c) ==
  IF rawEvent.item.type # "reasoning" THEN c
  ELSE Signature(openThinkingBlockIfNeeded(c, toNumber(rawEvent.output_index)),
                 rawEvent.item.encrypted_content)

OutputItemDoneAfter(rawEvent, c) ==
  IF rawEvent.item.type # "reasoning" THEN c
  ELSE CloseReturnedBlock(
         Signature(openThinkingBlockIfNeeded(c, toNumber(rawEvent.output_index)),
                   rawEvent.item.encrypted_content))

handleOutputItemDone(rawEvent, state) ==
  OutputItemDoneAfter(rawEvent, ensureMessageStart(state, NoResponse))

FunctionCallArgumentsDeltaFor(rawEvent, c, outputIndex) ==
  IF outputIndex = NoNumber THEN c
  ELSE IF rawEvent.delta = UNDEF \/ rawEvent.delta = "" THEN c
  ELSE EmitDelta(openFunctionCallBlock(c, outputIndex, UNDEF, UNDEF),
                 "input_json_delta", rawEvent.delta)

handleFunctionCallArgumentsDelta(rawEvent, state) ==
  FunctionCallArgumentsDeltaFor(
    rawEvent, ensureMessageStart(state, NoResponse),
    resolveFunctionCallOutputIndex(state, rawEvent))

\* FinalArguments, were it to ignore blockHasDelta
FinalArguments_Always(c, finalArguments) ==
  IF finalArguments # UNDEF /\ finalArguments # ""
  THEN EmitDelta(c, "input_json_delta", finalArguments)
  ELSE c

FinalArguments(c, finalArguments) ==
  IF c.blockIndex \notin c.state.blockHasDelta
     /\ finalArguments # UNDEF /\ finalArguments # ""
  THEN EmitDelta(c, "input_json_delta", finalArguments)
  ELSE c

DeleteIfNonEmpty(m, itemId) ==
  IF toNonEmptyString(itemId) # UNDEF THEN MapDelete(m, itemId) ELSE m

ForgetFunctionCall(c, outputIndex, itemId) ==
  [c EXCEPT
     !.state.functionCallStateByOutputIndex = MapDelete(@, outputIndex),
     !.state.functionCallOutputIndexByItemId =
        DeleteIfNonEmpty(
          MapDelete(@, c.state.functionCallStateByOutputIndex[outputIndex].toolCallId),
          itemId)]

FunctionCallArgumentsDoneFor(rawEvent, c, outputIndex) ==
  IF outputIndex = NoNumber THEN c
  ELSE ForgetFunctionCall(
         CloseReturnedBlock(
           FinalArguments(openFunctionCallBlock(c, outputIndex, UNDEF, UNDEF),
                          rawEvent.arguments)),
         outputIndex, rawEvent.item_id)

handleFunctionCallArgumentsDone(rawEvent, state) ==
  FunctionCallArgumentsDoneFor(
    rawEvent, ensureMessageStart(state, NoResponse),
    resolveFunctionCallOutputIndex(state, rawEvent))

OutputTextDeltaAfter(rawEvent, c) ==
  IF rawEvent.delta = UNDEF \/ rawEvent.delta = "" THEN c
  ELSE EmitDelta(openTextBlockIfNeeded(c, toNumber(rawEvent.output_index),
                                       toNumber(rawEvent.content_index)),
                 "text_delta", rawEvent.delta)

handleOutputTextDelta(rawEvent, state) ==
  OutputTextDeltaAfter(rawEvent, ensureMessageStart(state, NoResponse))

ReasoningSummaryTextDeltaAfter(rawEvent, c) ==
  IF rawEvent.delta = UNDEF \/ rawEvent.delta = "" THEN c
  ELSE EmitDelta(openThinkingBlockIfNeeded(c, toNumber(rawEvent.output_index)),
                 "thinking_delta", rawEvent.delta)

handleReasoningSummaryTextDelta(rawEvent, state) ==
  ReasoningSummaryTextDeltaAfter(rawEvent, ensureMessageStart(state, NoResponse))

\* the delta a *.done handler synthesises when the block has had none
DoneText(c, deltaType, text) ==
  IF text # UNDEF /\ text # "" /\ c.blockIndex \notin c.state.blockHasDelta
  THEN EmitDeltaUnmarked(c, deltaType, text)
  ELSE c

handleReasoningSummaryPartDone(rawEvent, state) ==
  DoneText(openThinkingBlockIfNeeded(ensureMessageStart(state, NoResponse),
                                     toNumber(rawEvent.output_index)),
           "thinking_delta", rawEvent.part_text)

\* DoneText, were it to run after the block has been closed
DoneTextAfterClose(c, deltaType, text, hadDelta) ==
  IF text # UNDEF /\ text # "" /\ ~hadDelta
  THEN EmitDeltaUnmarked(c, deltaType, text)
  ELSE c

OpenedTextBlock(rawEvent, state) ==
  openTextBlockIfNeeded(ensureMessageStart(state, NoResponse),
                        toNumber(rawEvent.output_index),
                        toNumber(rawEvent.content_index))

\* handleOutputTextDone, were it to close the block before the synthesised delta
handleOutputTextDone_CloseFirst(rawEvent, state) ==
  DoneTextAfterClose(
    CloseReturnedBlock(OpenedTextBlock(rawEvent, state)), "text_delta",
    rawEvent.text,
    OpenedTextBlock(rawEvent, state).blockIndex
      \in OpenedTextBlock(rawEvent, state).state.blockHasDelta)

handleOutputTextDone(rawEvent, state) ==
  CloseReturnedBlock(
    DoneText(OpenedTextBlock(rawEvent, state), "text_delta", rawEvent.text))

MessageDelta(response) ==
  IF response # NoResponse
  THEN [type |-> "message_delta",
        stop_reason |-> translateResponsesResultToAnthropic(response).stop_reason,
        stop_sequence |-> translateResponsesResultToAnthropic(response).stop_sequence,
        usage |-> translateResponsesResultToAnthropic(response).usage]
  ELSE [type |-> "message_delta", stop_reason |-> "null",
        stop_sequence |-> "null", usage |-> NoUsage]

MessageStop == [type |-> "message_stop"]

Complete(c, response) ==
  [c EXCEPT !.events = @ \o << MessageDelta(response), MessageStop >>,
            !.state.messageCompleted = TRUE]

\* handleResponseCompleted, were it to leave the open blocks alone
handleResponseCompleted_NoClose(rawEvent, state) ==
  Complete(ensureMessageStart(state, toResponsesResult(rawEvent.response)),
           toResponsesResult(rawEvent.response))

handleResponseCompleted(rawEvent, state) ==
  Complete(
    closeAllOpenBlocks(
      ensureMessageStart(state, toResponsesResult(rawEvent.response))),
    toResponsesResult(rawEvent.response))

Fail(c, message) ==
  [c EXCEPT !.events = Append(@, buildErrorEvent(message)),
            !.state.messageCompleted = TRUE]

handleResponseFailed(rawEvent, state) ==
  Fail(closeAllOpenBlocks(
         ensureMessageStart(state, toResponsesResult(rawEvent.response))),
       IF rawEvent.error # UNDEF THEN rawEvent.error
       ELSE "Response generation failed.")

\* handleErrorEvent, were it to close the open blocks as handleResponseFailed does
handleErrorEvent_Closing(rawEvent, state) ==
  Fail(closeAllOpenBlocks(Ctx(state, << >>)),
       IF rawEvent.message # UNDEF THEN rawEvent.message
       ELSE "An unexpected error occurred during streaming.")

handleErrorEvent(rawEvent, state) ==
  Fail(Ctx(state, << >>),
       IF rawEvent.message # UNDEF THEN rawEvent.message
       ELSE "An unexpected error occurred during streaming.")

translateResponsesStreamEvent(rawEvent, state) ==
  CASE rawEvent.type = "response.created" ->
         handleResponseCreated(rawEvent, state)
    [] rawEvent.type = "response.reasoning_summary_text.delta" ->
         handleReasoningSummaryTextDelta(rawEvent, state)
    [] rawEvent.type = "response.output_text.delta" ->
         handleOutputTextDelta(rawEvent, state)
    [] rawEvent.type = "response.reasoning_summary_part.done" ->
         handleReasoningSummaryPartDone(rawEvent, state)
    [] rawEvent.type = "response.output_text.done" ->
         handleOutputTextDone(rawEvent, state)
    [] rawEvent.type = "response.output_item.added" ->
         handleOutputItemAdded(rawEvent, state)
    [] rawEvent.type = "response.output_item.done" ->
         handleOutputItemDone(rawEvent, state)
    [] rawEvent.type = "response.function_call_arguments.delta" ->
         handleFunctionCallArgumentsDelta(rawEvent, state)
    [] rawEvent.type = "response.function_call_arguments.done" ->
         handleFunctionCallArgumentsDone(rawEvent, state)
    [] rawEvent.type \in {"response.completed", "response.incomplete"} ->
         handleResponseCompleted(rawEvent, state)
    [] rawEvent.type = "response.failed" ->
         handleResponseFailed(rawEvent, state)
    [] rawEvent.type = "error" ->
         handleErrorEvent(rawEvent, state)
    [] OTHER -> Ctx(state, << >>)

(***************************************************************************)
(* Upstream chunks.  A chunk is {event, data}; data is the JSON text of a  *)
(* raw event, kept here as the parsed event (hasData FALSE: no data).      *)
(***************************************************************************)
Chunk(rawEvent) == [event |-> rawEvent.type, hasData |-> TRUE, raw |-> rawEvent]

PingChunk == [event |-> "ping", hasData |-> FALSE, raw |-> [type |-> UNDEF]]

EmptyChunk == [event |-> "message", hasData |-> FALSE, raw |-> [type |-> UNDEF]]

NoChunk == [event |-> UNDEF, hasData |-> FALSE, raw |-> [type |-> UNDEF]]

OutputIndexes == 0..MaxOutputIndex

ContentIndexes == {0, 1}

Result(status, reason, inputTokens, outputTokens, cachedTokens) ==
  [shape |-> "result", id |-> "resp_1", model |-> "gpt-5", status |-> status,
   reason |-> reason, input_tokens |-> inputTokens,
   output_tokens |-> outputTokens, cached_tokens |-> cachedTokens,
   output |-> << >>, output_text |-> ""]

\* a response member without id, model, output and object
PartialResponse ==
  [shape |-> "partial", id |-> UNDEF, model |-> UNDEF, status |-> "completed",
   reason |-> UNDEF, input_tokens |-> 1, output_tokens |-> 1,
   cached_tokens |-> NoNumber, output |-> << >>, output_text |-> ""]

CreatedEvents ==
  {[type |-> "response.created", response |-> r] :
     r \in {NoResponse, Result("in_progress", UNDEF, 2, 0, 1)}}

OutputTextDeltaEvents ==
  {[type |-> "response.output_text.delta", output_index |-> o,
    content_index |-> ci, delta |-> "x"] :
     o \in OutputIndexes, ci \in ContentIndexes}
  \cup {[type |-> "response.output_text.delta", output_index |-> NoNumber,
         content_index |-> NoNumber, delta |-> ""]}

OutputTextDoneEvents ==
  {[type |-> "response.output_text.done", output_index |-> o,
    content_index |-> 0, text |-> t] : o \in OutputIndexes, t \in {"", "x"}}

ReasoningSummaryTextDeltaEvents ==
  {[type |-> "response.reasoning_summary_text.delta", output_index |-> o,
    delta |-> "r"] : o \in OutputIndexes}

ReasoningSummaryPartDoneEvents ==
  {[type |-> "response.reasoning_summary_part.done", output_index |-> o,
    part_text |-> t] : o \in OutputIndexes, t \in {"", "r"}}

FunctionCallItem(callId, id, name, arguments) ==
  [type |-> "function_call", call_id |-> callId, id |-> id, name |-> name,
   arguments |-> arguments, encrypted_content |-> UNDEF]

OutputItemAddedEvents ==
  {[type |-> "response.output_item.added", output_index |-> o, item_id |-> "",
    item |-> FunctionCallItem("c1", "i1", "n1", a), response |-> NoResponse] :
     o \in OutputIndexes, a \in {"", "j"}}
  \cup {[type |-> "response.output_item.added", output_index |-> 0,
         item_id |-> "", item |-> FunctionCallItem("", "", "", UNDEF),
         response |-> NoResponse],
        [type |-> "response.output_item.added", output_index |-> NoNumber,
         item_id |-> "", item |-> FunctionCallItem("c1", "i1", "n1", "j"),
         response |-> NoResponse],
        [type |-> "response.output_item.added", output_index |-> 0,
         item_id |-> "",
         item |-> [type |-> "message", call_id |-> "", id |-> "m1",
                   name |-> "", arguments |-> UNDEF,
                   encrypted_content |-> UNDEF],
         response |-> NoResponse]}

OutputItemDoneEvents ==
  {[type |-> "response.output_item.done", output_index |-> o,
    item |-> [type |-> "reasoning", encrypted_content |-> e]] :
     o \in OutputIndexes, e \in {UNDEF, "sig"}}
  \cup {[type |-> "response.output_item.done", output_index |-> 0,
         item |-> [type |-> "message", encrypted_content |-> UNDEF]]}

FunctionCallArgumentsDeltaEvents ==
  {[type |-> "response.function_call_arguments.delta", output_index |-> o,
    item_id |-> "i1", delta |-> "j"] : o \in OutputIndexes}
  \cup {[type |-> "response.function_call_arguments.delta",
         output_index |-> NoNumber, item_id |-> i, delta |-> "j"] :
          i \in {"i1", "i9"}}

FunctionCallArgumentsDoneEvents ==
  {[type |-> "response.function_call_arguments.done", output_index |-> o,
    item_id |-> "i1", arguments |-> a] : o \in OutputIndexes, a \in {"", "j"}}
  \cup {[type |-> "response.function_call_arguments.done",
         output_index |-> NoNumber, item_id |-> i, arguments |-> "j"] :
          i \in {"i1", "i9"}}

CompletedEvents ==
  {[type |-> "response.completed", response |-> r] :
     r \in {NoResponse, PartialResponse,
            Result("completed", UNDEF, 2, 1, NoNumber)}}
  \cup {[type |-> "response.incomplete",
         response |-> Result("incomplete", "max_output_tokens", 2, 1, NoNumber)]}

FailedEvents ==
  {[type |-> "response.failed", response |-> NoResponse, error |-> e] :
     e \in {UNDEF, "boom"}}

ErrorEvents == {[type |-> "error", message |-> m] : m \in {UNDEF, "boom"}}

UnknownEvents == {[type |-> "response.in_progress"]}

(***************************************************************************)
(* The stream callback of handleWithResponsesApi.                          *)
(***************************************************************************)
PingEvent == [type |-> "ping"]

\* the loop body hands the translated events to the client
WriteEvents(c) ==
  /\ streamState' = c.state
  /\ written' = written \o c.events
  /\ lastEvents' = c.events

\* one iteration of `for await (const chunk of response)`, without its break
LoopBody_NoBreak(chunk) ==
  /\ pc = "loop"
  /\ lastChunk' = chunk
  /\ before' = streamState
  /\ consumed' = consumed + 1
  /\ IF chunk.event = "ping"
     THEN /\ written' = Append(written, PingEvent)
          /\ lastEvents' = << PingEvent >>
          /\ UNCHANGED <<streamState, pc>>
     ELSE IF ~chunk.hasData
     THEN /\ lastEvents' = << >>
          /\ UNCHANGED <<streamState, written, pc>>
     ELSE /\ WriteEvents(translateResponsesStreamEvent(chunk.raw, streamState))
          /\ pc' = "loop"

\* one iteration of `for await (const chunk of response)`
LoopBody(chunk) ==
  /\ pc = "loop"
  /\ lastChunk' = chunk
  /\ before' = streamState
  /\ consumed' = consumed + 1
  /\ IF chunk.event = "ping"
     THEN /\ written' = Append(written, PingEvent)
          /\ lastEvents' = << PingEvent >>
          /\ UNCHANGED <<streamState, pc>>
     ELSE IF ~chunk.hasData
     THEN /\ lastEvents' = << >>
          /\ UNCHANGED <<streamState, written, pc>>
     ELSE /\ WriteEvents(translateResponsesStreamEvent(chunk.raw, streamState))
          /\ pc' = IF streamState'.messageCompleted THEN "after" ELSE "loop"

Receive(events) ==
  /\ consumed < MaxEvents
  /\ \E rawEvent \in events : LoopBody(Chunk(rawEvent))
  /\ UNCHANGED <<scenario, script, result>>

ResponseCreated == Receive(CreatedEvents)

OutputTextDelta == Receive(OutputTextDeltaEvents)

OutputTextDone == Receive(OutputTextDoneEvents)

ReasoningSummaryTextDelta == Receive(ReasoningSummaryTextDeltaEvents)

ReasoningSummaryPartDone == Receive(ReasoningSummaryPartDoneEvents)

OutputItemAdded == Receive(OutputItemAddedEvents)

OutputItemDone == Receive(OutputItemDoneEvents)

FunctionCallArgumentsDelta == Receive(FunctionCallArgumentsDeltaEvents)

FunctionCallArgumentsDone == Receive(FunctionCallArgumentsDoneEvents)

ResponseCompleted == Receive(CompletedEvents)

ResponseFailed == Receive(FailedEvents)

ErrorEvent == Receive(ErrorEvents)

UnknownEvent == Receive(UnknownEvents)

Ping ==
  /\ consumed < MaxEvents
  /\ LoopBody(PingChunk)
  /\ UNCHANGED <<scenario, script, result>>

EmptyData ==
  /\ consumed < MaxEvents
  /\ LoopBody(EmptyChunk)
  /\ UNCHANGED <<scenario, script, result>>

\* the upstream iterator is exhausted: the for-await loop ends
EndOfStream ==
  /\ pc = "loop"
  /\ script = << >>
  /\ pc' = "after"
  /\ UNCHANGED <<streamState, written, consumed, lastChunk, before, lastEvents,
                 scenario, script, result>>

\* the statement after the loop, were it to write nothing
AfterLoop_Silent ==
  /\ pc = "after"
  /\ pc' = "done"
  /\ UNCHANGED <<streamState, written, consumed, lastChunk, before, lastEvents,
                 scenario, script, result>>

\* the statement after the loop
AfterLoop ==
  /\ pc = "after"
  /\ written' =
       IF ~streamState.messageCompleted
       THEN Append(written,
                   buildErrorEvent("Responses stream ended without completion"))
       ELSE written
  /\ pc' = "done"
  /\ UNCHANGED <<streamState, consumed, lastChunk, before, lastEvents,
                 scenario, script, result>>

NoScenario ==
  [callId |-> UNDEF, name |-> UNDEF, deltas |-> << >>, outputIndex |-> NoNumber,
   byItemId |-> FALSE, inputTokens |-> NoNumber, outputTokens |-> NoNumber]

Init ==
  /\ streamState = createResponsesStreamState
  /\ written = << >>
  /\ pc = "loop"
  /\ consumed = 0
  /\ lastChunk = NoChunk
  /\ before = createResponsesStreamState
  /\ lastEvents = << >>
  /\ scenario = NoScenario
  /\ script = << >>
  /\ result = UNDEF

Next ==
  \/ ResponseCreated
  \/ OutputTextDelta
  \/ OutputTextDone
  \/ ReasoningSummaryTextDelta
  \/ ReasoningSummaryPartDone
  \/ OutputItemAdded
  \/ OutputItemDone
  \/ FunctionCallArgumentsDelta
  \/ FunctionCallArgumentsDone
  \/ ResponseCompleted
  \/ ResponseFailed
  \/ ErrorEvent
  \/ UnknownEvent
  \/ Ping
  \/ EmptyData
  \/ EndOfStream
  \/ AfterLoop

Spec == Init /\ [][Next]_vars

(***************************************************************************)
(* A scripted upstream stream: one tool call (end-to-end scenario 2).      *)
(* response.created, response.output_item.added for a function_call item  *)
(* with empty arguments, the argument deltas, arguments.done carrying the  *)
(* whole argument text, response.completed with status completed.  The    *)
(* delta and done events name the call by output_index, or by item_id only.*)
(***************************************************************************)
DeltaTexts == {"a", "b"}

RECURSIVE Concat(_)
Concat(texts) == IF texts = << >> THEN "" ELSE Head(texts) \o Concat(Tail(texts))

ToolCallScenarios ==
  {[callId |-> c, name |-> n, deltas |-> d, outputIndex |-> o, byItemId |-> b,
    inputTokens |-> i, outputTokens |-> t] :
     c \in {"c1", "c2"}, n \in {"n1"},
     d \in UNION {[1..k -> DeltaTexts] : k \in 0..MaxDeltas},
     o \in OutputIndexes, b \in BOOLEAN, i \in 0..MaxTokens, t \in 0..MaxTokens}

ToolCallScript(sc) ==
  LET addressed == IF sc.byItemId THEN NoNumber ELSE sc.outputIndex
  IN << Chunk([type |-> "response.created",
               response |-> Result("in_progress", UNDEF, NoNumber, NoNumber,
                                   NoNumber)]),
        Chunk([type |-> "response.output_item.added",
               output_index |-> sc.outputIndex, item_id |-> "",
               item |-> FunctionCallItem(sc.callId, "i1", sc.name, ""),
               response |-> NoResponse]) >>
     \o [k \in 1..Len(sc.deltas) |->
           Chunk([type |-> "response.function_call_arguments.delta",
                  output_index |-> addressed, item_id |-> "i1",
                  delta |-> sc.deltas[k]])]
     \o << Chunk([type |-> "response.function_call_arguments.done",
                  output_index |-> addressed, item_id |-> "i1",
                  arguments |-> Concat(sc.deltas)]),
           Chunk([type |-> "response.completed",
                  response |-> Result("completed", UNDEF, sc.inputTokens,
                                      sc.outputTokens, NoNumber)]) >>

InitToolCall ==
  /\ streamState = createResponsesStreamState
  /\ written = << >>
  /\ pc = "loop"
  /\ consumed = 0
  /\ lastChunk = NoChunk
  /\ before = createResponsesStreamState
  /\ lastEvents = << >>
  /\ scenario \in ToolCallScenarios
  /\ script = ToolCallScript(scenario)
  /\ result = UNDEF

\* the loop reads the next chunk of the scripted stream
Deliver ==
  /\ script # << >>
  /\ LoopBody(Head(script))
  /\ script' = Tail(script)
  /\ UNCHANGED <<scenario, result>>

NextToolCall == Deliver \/ AfterLoop

SpecToolCall == InitToolCall /\ [][NextToolCall]_vars

(***************************************************************************)
(* Reading the client's event sequence.                                    *)
(***************************************************************************)
IsStart(e) == e.type = "content_block_start"

IsDelta(e) == e.type = "content_block_delta"

IsStop(e) == e.type = "content_block_stop"

IsBlockEvent(e) == IsStart(e) \/ IsDelta(e) \/ IsStop(e)

Count(type) == Cardinality({i \in DOMAIN written : written[i].type = type})

\* block `index` is open just before position i of the client's sequence
OpenBefore(i, index) ==
  \E j \in 1..(i - 1) :
    /\ IsStart(written[j]) /\ written[j].index = index
    /\ \A k \in (j + 1)..(i - 1) :
         ~(IsStop(written[k]) /\ written[k].index = index)

SyntheticError == buildErrorEvent("Responses stream ended without completion")

\* the events of the last iteration after its message_start, if it sent one
LastContentEvents ==
  IF before.messageStartSent \/ lastEvents = << >> THEN lastEvents
  ELSE Tail(lastEvents)

LastStartedMessage ==
  /\ ~before.messageStartSent
  /\ lastEvents # << >>
  /\ lastEvents[1].type = "message_start"

\* the first n events of evs are content_block_stop, one for every open block
StopsFor(evs, blocks) ==
  /\ Len(evs) >= Len(blocks)
  /\ \A i \in 1..Len(blocks) : IsStop(evs[i])
  /\ \A b \in Range(blocks) :
       Cardinality({i \in 1..Len(blocks) : evs[i].index = b}) = 1

(***************************************************************************)
(* C1: for every upstream sequence, including one ended by `error`, by     *)
(* response.failed or by the end of the stream without completion, the     *)
(* client has received as many content_block_start events as               *)
(* content_block_stop events when the stream is over.                      *)
(***************************************************************************)
C1_StartsEqualStops ==
  pc = "done" => Count("content_block_start") = Count("content_block_stop")

(***************************************************************************)
(* C2: every content_block_delta with index i comes after a                *)
(* content_block_start with index i, with no content_block_stop for i      *)
(* between the two.                                                        *)
(***************************************************************************)
C2_DeltaInsideOpenBlock ==
  \A i \in DOMAIN written :
    IsDelta(written[i]) => OpenBefore(i, written[i].index)

\* a *.done handler has synthesised a delta
C2_Witness ==
  /\ lastChunk.event \in {"response.output_text.done",
                          "response.reasoning_summary_part.done",
                          "response.function_call_arguments.done"}
  /\ \E i \in DOMAIN lastEvents : IsDelta(lastEvents[i])

(***************************************************************************)
(* C3: message_start is written exactly once and before any other event,  *)
(* whatever the first upstream event is.                                   *)
(***************************************************************************)
C3_MessageStartFirstAndOnce ==
  /\ written # << >> => written[1].type = "message_start"
  /\ pc = "done" => Count("message_start") = 1

(***************************************************************************)
(* C4: message_stop is written at most once, it is the last event written, *)
(* and once it is written the loop reads no further upstream chunk.        *)
(***************************************************************************)
C4_MessageStopOnceAndLast ==
  /\ Count("message_stop") <= 1
  /\ \A i \in DOMAIN written :
       written[i].type = "message_stop" => i = Len(written) /\ pc # "loop"

\* the stream is over and the client has its message_stop
C4_Witness == pc = "done" /\ Count("message_stop") = 1

(***************************************************************************)
(* C5: response.completed / response.incomplete emit one                   *)
(* content_block_stop for every open block, then one message_delta, then   *)
(* message_stop; afterwards openBlocks is empty and messageCompleted is    *)
(* true; no content_block_start is emitted for an index that is open.      *)
(***************************************************************************)
C5_CompletedClosesThenStops ==
  /\ lastChunk.event \in {"response.completed", "response.incomplete"} =>
       LET evs == LastContentEvents
           n == Len(before.openBlocks)
       IN /\ Len(lastEvents) = Len(evs) + (IF before.messageStartSent THEN 0 ELSE 1)
          /\ ~before.messageStartSent => LastStartedMessage
          /\ Len(evs) = n + 2
          /\ StopsFor(evs, before.openBlocks)
          /\ evs[n + 1].type = "message_delta"
          /\ evs[n + 2].type = "message_stop"
          /\ streamState.openBlocks = << >>
          /\ streamState.messageCompleted
  /\ \A i \in DOMAIN written :
       /\ written[i].type = "message_stop" =>
            \A b \in 0..streamState.nextContentBlockIndex : ~OpenBefore(i, b)
       /\ IsStart(written[i]) => ~OpenBefore(i, written[i].index)

\* a completion arrived while a block was open
C5_Witness ==
  /\ lastChunk.event \in {"response.completed", "response.incomplete"}
  /\ before.openBlocks # << >>
  /\ Count("message_stop") = 1

(***************************************************************************)
(* C6: the loop reads no chunk once messageCompleted is set; when the      *)
(* upstream ends with messageCompleted still false the handler writes the  *)
(* synthetic error "Responses stream ended without completion" exactly     *)
(* once, as the last event; after response.created alone the client has    *)
(* message_start and then this error.                                      *)
(***************************************************************************)
C6_LoopStopsOrSyntheticError ==
  /\ streamState.messageCompleted => pc # "loop"
  /\ (pc = "done" /\ ~streamState.messageCompleted) =>
       /\ written # << >>
       /\ written[Len(written)] = SyntheticError
       /\ Cardinality({i \in DOMAIN written : written[i] = SyntheticError}) = 1
  /\ (pc # "done" \/ streamState.messageCompleted) =>
       \A i \in DOMAIN written : written[i] # SyntheticError
  /\ (pc = "done" /\ consumed = 1 /\ lastChunk.event = "response.created") =>
       /\ Len(written) = 2
       /\ written[1].type = "message_start"
       /\ written[2] = SyntheticError

\* the upstream ended right after response.created
C6_Witness ==
  /\ pc = "done"
  /\ consumed = 1
  /\ lastChunk.event = "response.created"
  /\ written[Len(written)] = SyntheticError

(***************************************************************************)
(* C7: response.failed emits a content_block_stop for every open block,    *)
(* then one api_error error event, and sets messageCompleted; an upstream  *)
(* `error` emits only the error event, sets messageCompleted and leaves    *)
(* openBlocks as it was.  Neither emits message_delta or message_stop, and *)
(* the error event stays the last event of the stream.                     *)
(***************************************************************************)
C7_FailedAndErrorEvents ==
  /\ lastChunk.event = "response.failed" =>
       LET evs == LastContentEvents
           n == Len(before.openBlocks)
       IN /\ ~before.messageStartSent => LastStartedMessage
          /\ Len(evs) = n + 1
          /\ StopsFor(evs, before.openBlocks)
          /\ evs[n + 1].type = "error"
          /\ evs[n + 1].error_type = "api_error"
          /\ streamState.openBlocks = << >>
          /\ streamState.messageCompleted
  /\ lastChunk.event = "error" =>
       /\ Len(lastEvents) = 1
       /\ lastEvents[1].type = "error"
       /\ lastEvents[1].error_type = "api_error"
       /\ streamState.openBlocks = before.openBlocks
       /\ streamState.messageCompleted
  /\ lastChunk.event \in {"response.failed", "error"} =>
       /\ pc # "loop"
       /\ Count("message_delta") = 0
       /\ Count("message_stop") = 0
       /\ Count("error") = 1
       /\ written[Len(written)].type = "error"

\* an upstream `error` arrived while a block was open, and the stream is over
C7_Witness ==
  /\ lastChunk.event = "error"
  /\ before.openBlocks # << >>
  /\ pc = "done"

(***************************************************************************)
(* C8: nextContentBlockIndex starts at 0, never decreases and grows by     *)
(* exactly 1 at each allocation: the k-th newly started block has index    *)
(* k-1, and every index in an emitted event is below nextContentBlockIndex.*)
(***************************************************************************)
NewBlockAt(i) ==
  /\ IsStart(written[i])
  /\ \A j \in 1..(i - 1) :
       ~(IsStart(written[j]) /\ written[j].index = written[i].index)

C8_MonotonicBlockIndices ==
  /\ consumed = 0 => streamState.nextContentBlockIndex = 0
  /\ streamState.nextContentBlockIndex - before.nextContentBlockIndex \in {0, 1}
  /\ \A i \in DOMAIN written :
       /\ NewBlockAt(i) =>
            written[i].index = Cardinality({j \in 1..(i - 1) : NewBlockAt(j)})
       /\ IsBlockEvent(written[i]) =>
            written[i].index < streamState.nextContentBlockIndex
  /\ Cardinality({i \in DOMAIN written : NewBlockAt(i)})
       = streamState.nextContentBlockIndex

\* a text or thinking block and a tool_use block have been allocated
C8_Witness ==
  /\ streamState.nextContentBlockIndex = 2
  /\ \E i \in DOMAIN written :
       IsStart(written[i]) /\ written[i].index = 1
         /\ written[i].block_type = "tool_use"
  /\ \E i \in DOMAIN written :
       IsStart(written[i]) /\ written[i].index = 0
         /\ written[i].block_type # "tool_use"

(***************************************************************************)
(* C9: a key of blockIndexByKey keeps its index for the rest of the        *)
(* stream: no handler removes or changes an entry, and every later text or *)
(* thinking event for the key carries that index.                          *)
(***************************************************************************)
\* the key a text or thinking event addresses
KeyOf(rawEvent) ==
  IF rawEvent.type \in {"response.output_text.delta", "response.output_text.done"}
  THEN getBlockKey(toNumber(rawEvent.output_index),
                   toNumber(rawEvent.content_index))
  ELSE getBlockKey(toNumber(rawEvent.output_index), 0)

IsKeyedChunk(chunk) ==
  \/ chunk.event \in {"response.output_text.delta", "response.output_text.done",
                      "response.reasoning_summary_text.delta",
                      "response.reasoning_summary_part.done"}
  \/ /\ chunk.event = "response.output_item.done"
     /\ chunk.raw.item.type = "reasoning"

C9_KeyIndexStable ==
  /\ \A k \in DOMAIN before.blockIndexByKey :
       /\ k \in DOMAIN streamState.blockIndexByKey
       /\ streamState.blockIndexByKey[k] = before.blockIndexByKey[k]
  /\ (IsKeyedChunk(lastChunk)
        /\ KeyOf(lastChunk.raw) \in DOMAIN before.blockIndexByKey) =>
       \A i \in DOMAIN lastEvents :
         IsBlockEvent(lastEvents[i]) =>
           lastEvents[i].index = before.blockIndexByKey[KeyOf(lastChunk.raw)]

\* the key of a closed block is addressed again and a delta is emitted for it
C9_Witness ==
  /\ IsKeyedChunk(lastChunk)
  /\ KeyOf(lastChunk.raw) \in DOMAIN before.blockIndexByKey
  /\ ~IsOpen(before, before.blockIndexByKey[KeyOf(lastChunk.raw)])
  /\ \E i \in DOMAIN lastEvents : IsDelta(lastEvents[i])

(***************************************************************************)
(* C10: for the scripted tool-call stream with k argument deltas the       *)
(* client sees exactly message_start, content_block_start{tool_use, id c,  *)
(* name n}, the k input_json_delta events in order, content_block_stop,    *)
(* message_delta{end_turn, the response's input and output tokens},        *)
(* message_stop.                                                           *)
(***************************************************************************)
C10_ToolCallStream ==
  pc = "done" =>
    LET k == Len(scenario.deltas)
    IN /\ Len(written) = k + 5
       /\ written[1].type = "message_start"
       /\ written[2] = [type |-> "content_block_start", index |-> 0,
                        block_type |-> "tool_use", id |-> scenario.callId,
                        name |-> scenario.name]
       /\ \A i \in 1..k :
            written[2 + i] = Delta(0, "input_json_delta", scenario.deltas[i])
       /\ written[k + 3] = [type |-> "content_block_stop", index |-> 0]
       /\ written[k + 4] =
            [type |-> "message_delta", stop_reason |-> "end_turn",
             stop_sequence |-> "null",
             usage |-> [input_tokens |-> scenario.inputTokens,
                        output_tokens |-> scenario.outputTokens]]
       /\ written[k + 5] = [type |-> "message_stop"]

\* a stream with two different deltas, addressed by item_id only, is over
C10_Witness ==
  /\ pc = "done"
  /\ Len(scenario.deltas) = 2
  /\ scenario.deltas[1] # scenario.deltas[2]
  /\ scenario.byItemId
  /\ scenario.inputTokens # scenario.outputTokens
  /\ script = << >>

(***************************************************************************)
(* Part 2: the ChatCompletions client on a Responses upstream              *)
(* (src/routes/chat-completions/handler.ts and responses-translation.ts).  *)
(* A chunk's data is JSON text; it is kept as the parsed event, and text   *)
(* that JSON.parse rejects is the raw event of type Unparsable.            *)
(***************************************************************************)
Unparsable == "<unparsable>"

MalformedChunk == [event |-> "message", hasData |-> TRUE, raw |-> [type |-> Unparsable]]

ChatModel == "gpt-5"

\* what translateResponsesStreamEventToOpenAIChunk returns for `null`
NoOpenAIChunk == [object |-> UNDEF]

\* createBaseChunk with its one choice; delta holds the members the delta has
OpenAIChunk(model, delta, finishReason) ==
  [object |-> "chat.completion.chunk", model |-> model, delta |-> delta,
   finish_reason |-> finishReason]

createOutputTextChunk(model, content) ==
  OpenAIChunk(model, [content |-> content], "null")

createReasoningChunk(model, reasoningText) ==
  OpenAIChunk(model, [reasoning_text |-> reasoningText], "null")

\* the one entry of delta.tool_calls: its index is the literal 0
createToolCallChunk(model, callId, name) ==
  OpenAIChunk(model, [tool_call_index |-> 0, tool_call_id |-> callId,
                      tool_call_name |-> name, tool_call_arguments |-> ""],
              "null")

createFunctionArgumentsChunk(model, args) ==
  OpenAIChunk(model, [tool_call_index |-> 0, tool_call_arguments |-> args],
              "null")

createCompletedChunk(model) == OpenAIChunk(model, [none |-> TRUE], "stop")

\* the translator, were it to close the choice on every terminal event
translateResponsesStreamEventToOpenAIChunk_FinishAll(event, model) ==
  CASE event.type = "response.output_text.delta" ->
         createOutputTextChunk(model, event.delta)
    [] event.type = "response.reasoning_summary_text.delta" ->
         createReasoningChunk(model, event.delta)
    [] event.type = "response.output_item.added" ->
         IF event.item.type = "function_call"
         THEN createToolCallChunk(model, event.item.call_id, event.item.name)
         ELSE NoOpenAIChunk
    [] event.type = "response.function_call_arguments.delta" ->
         createFunctionArgumentsChunk(model, event.delta)
    [] event.type \in {"response.completed", "response.failed",
                       "response.incomplete", "error"} ->
         createCompletedChunk(model)
    [] OTHER -> NoOpenAIChunk

translateResponsesStreamEventToOpenAIChunk(event, model) ==
  CASE event.type = "response.output_text.delta" ->
         createOutputTextChunk(model, event.delta)
    [] event.type = "response.reasoning_summary_text.delta" ->
         createReasoningChunk(model, event.delta)
    [] event.type = "response.output_item.added" ->
         IF event.item.type = "function_call"
         THEN createToolCallChunk(model, event.item.call_id, event.item.name)
         ELSE NoOpenAIChunk
    [] event.type = "response.function_call_arguments.delta" ->
         createFunctionArgumentsChunk(model, event.delta)
    [] event.type = "response.completed" ->
         createCompletedChunk(model)
    [] OTHER -> NoOpenAIChunk

\* delta.reasoning_text, when truthy, is renamed reasoning_content
RenameReasoning(openAIChunk) ==
  IF openAIChunk = NoOpenAIChunk THEN openAIChunk
  ELSE IF "reasoning_text" \in DOMAIN openAIChunk.delta
          /\ openAIChunk.delta.reasoning_text # ""
  THEN [openAIChunk EXCEPT
          !.delta = [reasoning_content |-> openAIChunk.delta.reasoning_text]]
  ELSE openAIChunk

\* JSON.parse throws on malformed data: the catch returns null
processResponsesApiChunk(data, model) ==
  IF data.type = Unparsable THEN NoOpenAIChunk
  ELSE RenameReasoning(translateResponsesStreamEventToOpenAIChunk(data, model))

\* an SSE message whose data is the JSON text of a chunk
ChunkMessage(chunkData) == [chunk |-> chunkData]

DoneMessage == [data |-> "[DONE]"]

WriteChunk(chunkData) ==
  /\ written' = IF chunkData # NoOpenAIChunk
                THEN Append(written, ChunkMessage(chunkData)) ELSE written
  /\ lastEvents' = IF chunkData # NoOpenAIChunk
                   THEN << ChunkMessage(chunkData) >> ELSE << >>

\* one iteration of the for-await loop of the streaming branch
ChatLoopBody(chunk) ==
  /\ pc = "loop"
  /\ lastChunk' = chunk
  /\ consumed' = consumed + 1
  /\ IF chunk.event = "ping" \/ ~chunk.hasData
     THEN /\ lastEvents' = << >>
          /\ UNCHANGED written
     ELSE WriteChunk(processResponsesApiChunk(chunk.raw, ChatModel))
  /\ UNCHANGED <<streamState, before, pc, scenario, script, result>>

UpstreamEvents ==
  CreatedEvents \cup OutputTextDeltaEvents \cup OutputTextDoneEvents
  \cup ReasoningSummaryTextDeltaEvents \cup ReasoningSummaryPartDoneEvents
  \cup OutputItemAddedEvents \cup OutputItemDoneEvents
  \cup FunctionCallArgumentsDeltaEvents \cup FunctionCallArgumentsDoneEvents
  \cup CompletedEvents \cup FailedEvents \cup ErrorEvents \cup UnknownEvents

ChatReceive ==
  /\ consumed < MaxEvents
  /\ \E rawEvent \in UpstreamEvents : ChatLoopBody(Chunk(rawEvent))

ChatSkip ==
  /\ consumed < MaxEvents
  /\ \E chunk \in {PingChunk, EmptyChunk} : ChatLoopBody(chunk)

ChatMalformed ==
  /\ consumed < MaxEvents
  /\ ChatLoopBody(MalformedChunk)

\* `await stream.writeSSE({ data: "[DONE]" })` after the loop
ChatAfterLoop ==
  /\ pc = "after"
  /\ written' = Append(written, DoneMessage)
  /\ pc' = "done"
  /\ UNCHANGED <<streamState, consumed, lastChunk, before, lastEvents,
                 scenario, script, result>>

NextChat ==
  \/ ChatReceive
  \/ ChatSkip
  \/ ChatMalformed
  \/ EndOfStream
  \/ ChatAfterLoop

SpecChat == Init /\ [][NextChat]_vars

TerminalEvents == {"response.failed", "response.incomplete", "error"}

(***************************************************************************)
(* C11: on the ChatCompletions client / Responses upstream streaming path, *)
(* for every finite upstream sequence the handler writes the [DONE]        *)
(* sentinel exactly once and as the last message, and nothing before the   *)
(* loop is over; for response.failed, response.incomplete and error the    *)
(* translator emits no chunk.                                              *)
(***************************************************************************)
C11_DoneOnceAndLast ==
  /\ pc = "done" =>
       /\ Len(written) >= 1
       /\ written[Len(written)] = DoneMessage
       /\ \A i \in 1..(Len(written) - 1) : written[i] # DoneMessage
  /\ pc # "done" => \A i \in 1..Len(written) : written[i] # DoneMessage
  /\ lastChunk.event \in TerminalEvents => lastEvents = << >>
  /\ \A rawEvent \in UpstreamEvents :
       rawEvent.type \in TerminalEvents =>
         translateResponsesStreamEventToOpenAIChunk(rawEvent, ChatModel)
           = NoOpenAIChunk

C11_Witness ==
  /\ pc = "done"
  /\ lastChunk.event \in TerminalEvents
  /\ Len(written) = 2
  /\ written[1] # DoneMessage
  /\ written[2] = DoneMessage

(***************************************************************************)
(* Part 3: routing.  The three route handlers choose the upstream from the *)
(* model catalog (state.models) and the request.  `written` is the         *)
(* sequence of the handler's effects: the approval wait, the upstream      *)
(* call, the HTTP response.  checkRateLimit and awaitApproval are external *)
(* collaborators and return.                                               *)
(***************************************************************************)
MaxModels == 2

\* the model ids of the requests and the catalog; the last one starts with
\* "claude-sonnet-4-"
ModelIds == {"gpt-5", "gpt-4o", "claude-sonnet-4-5"}

\* translateModelName of translateToOpenAI on the ids above
translateModelName(model) ==
  IF model = "claude-sonnet-4-5" THEN "claude-sonnet-4" ELSE model

RESPONSES_ENDPOINT == "/responses"

\* a catalog entry; hasEndpoints FALSE: supported_endpoints is undefined
Models ==
  [id : ModelIds, hasEndpoints : {TRUE},
   supported_endpoints : {{}, {"/chat/completions"}, {RESPONSES_ENDPOINT},
                          {"/chat/completions", RESPONSES_ENDPOINT}}]
  \cup [id : ModelIds, hasEndpoints : {FALSE}, supported_endpoints : {{}}]

\* what Array.prototype.find returns when no entry matches
NoModel == [id |-> UNDEF, hasEndpoints |-> FALSE, supported_endpoints |-> {}]

\* state.models; loaded FALSE: state.models is undefined.  Ids are unique.
Catalogs(maxModels) ==
  {[loaded |-> FALSE, data |-> << >>]}
  \cup {[loaded |-> TRUE, data |-> d] :
          d \in {x \in UNION {[1..n -> Models] : n \in 0..maxModels} :
                   \A i, j \in DOMAIN x : i # j => x[i].id # x[j].id}}

\* state.models?.data.find((model) => model.id === modelId)
FindModel(models, modelId) ==
  IF models.loaded /\ \E i \in DOMAIN models.data : models.data[i].id = modelId
  THEN models.data[CHOOSE i \in DOMAIN models.data :
                     /\ models.data[i].id = modelId
                     /\ \A j \in 1..(i - 1) : models.data[j].id # modelId]
  ELSE NoModel

\* selectedModel?.supported_endpoints?.includes(RESPONSES_ENDPOINT) ?? false
SupportsResponses(selectedModel) ==
  IF selectedModel = NoModel \/ ~selectedModel.hasEndpoints THEN FALSE
  ELSE RESPONSES_ENDPOINT \in selectedModel.supported_endpoints

\* shouldUseResponsesApi, were a missing model to default to true
shouldUseResponsesApi_DefaultTrue(models, modelId) ==
  IF FindModel(models, modelId) = NoModel
     \/ ~FindModel(models, modelId).hasEndpoints
  THEN TRUE
  ELSE SupportsResponses(FindModel(models, modelId))

shouldUseResponsesApi(models, modelId) ==
  SupportsResponses(FindModel(models, modelId))

\* the requests of the three routes.  tools is the length of payload.tools
\* (NoNumber: no tools member); input is the Responses payload's input.
MessagesRequests ==
  [route : {"/v1/messages"}, model : ModelIds, anthropicBeta : BOOLEAN,
   tools : {NoNumber, 0, 1}, smallModel : ModelIds, stream : {FALSE}]

ChatRequests ==
  [route : {"/v1/chat/completions"}, model : ModelIds, stream : BOOLEAN]

ResponsesRequests ==
  [route : {"/v1/responses"}, model : ModelIds, stream : BOOLEAN,
   input : {"hello", "<<items>>"}]

RouteScenarios(maxModels) ==
  {[request |-> r, models |-> m, manualApprove |-> a] :
     r \in MessagesRequests \cup ChatRequests \cup ResponsesRequests,
     m \in Catalogs(maxModels), a \in BOOLEAN}

Approval(manualApprove) ==
  IF manualApprove THEN << [effect |-> "awaitApproval"] >> ELSE << >>

UpstreamCall(useResponsesApi, model) ==
  << [effect |-> IF useResponsesApi THEN "createResponses"
                 ELSE "createChatCompletions",
      model |-> model] >>

\* anthropicPayload.model after the warmup rewrite
MessagesModel(request) ==
  IF request.anthropicBeta /\ (request.tools = NoNumber \/ request.tools = 0)
  THEN request.smallModel
  ELSE request.model

\* payload.model of the upstream request: translateToOpenAI rewrites the name,
\* translateAnthropicMessagesToResponsesPayload copies it
UpstreamModel(useResponsesApi, model) ==
  IF useResponsesApi THEN model ELSE translateModelName(model)

\* handleCompletion of /v1/messages, were the model rewritten after routing
MessagesHandleCompletion_RouteFirst ==
  /\ pc = "request"
  /\ scenario.request.route = "/v1/messages"
  /\ written' =
       Approval(scenario.manualApprove)
       \o UpstreamCall(shouldUseResponsesApi(scenario.models,
                                             scenario.request.model),
                       UpstreamModel(
                         shouldUseResponsesApi(scenario.models,
                                               scenario.request.model),
                         MessagesModel(scenario.request)))
  /\ pc' = "done"
  /\ UNCHANGED <<streamState, consumed, lastChunk, before, lastEvents,
                 scenario, script, result>>

\* handleCompletion of /v1/messages
MessagesHandleCompletion ==
  /\ pc = "request"
  /\ scenario.request.route = "/v1/messages"
  /\ written' =
       Approval(scenario.manualApprove)
       \o UpstreamCall(shouldUseResponsesApi(scenario.models,
                                             MessagesModel(scenario.request)),
                       UpstreamModel(
                         shouldUseResponsesApi(scenario.models,
                                               MessagesModel(scenario.request)),
                         MessagesModel(scenario.request)))
  /\ pc' = "done"
  /\ UNCHANGED <<streamState, consumed, lastChunk, before, lastEvents,
                 scenario, script, result>>

\* handleCompletion of /v1/chat/completions
ChatHandleCompletion ==
  /\ pc = "request"
  /\ scenario.request.route = "/v1/chat/completions"
  /\ written' =
       Approval(scenario.manualApprove)
       \o UpstreamCall(shouldUseResponsesApi(scenario.models,
                                             scenario.request.model),
                       scenario.request.model)
  /\ pc' = "done"
  /\ UNCHANGED <<streamState, consumed, lastChunk, before, lastEvents,
                 scenario, script, result>>

InvalidRequest ==
  [effect |-> "json", status |-> 400, error_type |-> "invalid_request_error"]

\* handleResponses, were it to wait for the approval before the endpoint check
handleResponses_ApproveFirst ==
  /\ pc = "request"
  /\ scenario.request.route = "/v1/responses"
  /\ written' =
       IF ~shouldUseResponsesApi(scenario.models, scenario.request.model)
       THEN Approval(scenario.manualApprove) \o << InvalidRequest >>
       ELSE Approval(scenario.manualApprove)
            \o << [effect |-> "createResponses",
                   payload |-> scenario.request] >>
  /\ pc' = "done"
  /\ UNCHANGED <<streamState, consumed, lastChunk, before, lastEvents,
                 scenario, script, result>>

handleResponses ==
  /\ pc = "request"
  /\ scenario.request.route = "/v1/responses"
  /\ written' =
       IF ~shouldUseResponsesApi(scenario.models, scenario.request.model)
       THEN << InvalidRequest >>
       ELSE Approval(scenario.manualApprove)
            \o << [effect |-> "createResponses",
                   payload |-> scenario.request] >>
  /\ pc' = "done"
  /\ UNCHANGED <<streamState, consumed, lastChunk, before, lastEvents,
                 scenario, script, result>>

InitRoute ==
  /\ streamState = createResponsesStreamState
  /\ written = << >>
  /\ pc = "request"
  /\ consumed = 0
  /\ lastChunk = NoChunk
  /\ before = createResponsesStreamState
  /\ lastEvents = << >>
  /\ scenario \in RouteScenarios(MaxModels)
  /\ script = << >>
  /\ result = UNDEF

NextRoute ==
  \/ MessagesHandleCompletion
  \/ ChatHandleCompletion
  \/ handleResponses

SpecRoute == InitRoute /\ [][NextRoute]_vars

UpstreamCalls ==
  {i \in 1..Len(written) :
     written[i].effect \in {"createResponses", "createChatCompletions"}}

\* the catalog has an entry for the model whose supported_endpoints has "/responses"
InCatalogWithResponses(models, modelId) ==
  /\ models.loaded
  /\ \E i \in DOMAIN models.data :
       /\ models.data[i].id = modelId
       /\ models.data[i].hasEndpoints
       /\ "/responses" \in models.data[i].supported_endpoints

RoutedWith(modelId) ==
  /\ Cardinality(UpstreamCalls) = 1
  /\ \A i \in UpstreamCalls :
       written[i].effect = "createResponses"
         <=> InCatalogWithResponses(scenario.models, modelId)

(***************************************************************************)
(* C12 as stated: every /v1/messages and /v1/chat/completions request      *)
(* calls exactly one upstream, the Responses upstream if and only if the   *)
(* requested model is in the catalog with "/responses" among its           *)
(* supported_endpoints.                                                    *)
(***************************************************************************)
C12_RoutedByRequestedModel ==
  (pc = "done"
   /\ scenario.request.route \in {"/v1/messages", "/v1/chat/completions"})
  => RoutedWith(scenario.request.model)

(***************************************************************************)
(* C12 amended: exactly one upstream is called, the Responses upstream if  *)
(* and only if the model the request is routed with is in the catalog with *)
(* "/responses" among its supported_endpoints; that model is the requested *)
(* model, except that a /v1/messages request with an anthropic-beta header *)
(* and no tools is routed with the configured small model.                 *)
(***************************************************************************)
C12_RoutedByEffectiveModel ==
  /\ (pc = "done" /\ scenario.request.route = "/v1/chat/completions")
       => RoutedWith(scenario.request.model)
  /\ (pc = "done" /\ scenario.request.route = "/v1/messages")
       => RoutedWith(IF scenario.request.anthropicBeta
                        /\ scenario.request.tools \in {NoNumber, 0}
                     THEN scenario.request.smallModel
                     ELSE scenario.request.model)

C12_Witness ==
  /\ pc = "done"
  /\ scenario.request.route = "/v1/messages"
  /\ scenario.request.anthropicBeta
  /\ scenario.request.tools = 0
  /\ InCatalogWithResponses(scenario.models, scenario.request.model)
  /\ ~InCatalogWithResponses(scenario.models, scenario.request.smallModel)
  /\ written = << [effect |-> "createChatCompletions",
                   model |-> scenario.request.smallModel] >>

(***************************************************************************)
(* C13: POST /v1/responses for a model that is not in the catalog or whose *)
(* supported_endpoints lacks "/responses" answers 400 with an              *)
(* invalid_request_error and neither waits for the manual approval nor     *)
(* calls createResponses; otherwise createResponses receives the payload   *)
(* as it was received.                                                     *)
(***************************************************************************)
C13_ResponsesPassThrough ==
  (pc = "done" /\ scenario.request.route = "/v1/responses") =>
    IF InCatalogWithResponses(scenario.models, scenario.request.model)
    THEN /\ Cardinality(UpstreamCalls) = 1
         /\ written[Len(written)] =
              [effect |-> "createResponses", payload |-> scenario.request]
    ELSE /\ Len(written) = 1
         /\ written[1].effect = "json"
         /\ written[1].status = 400
         /\ written[1].error_type = "invalid_request_error"

C13_Witness ==
  /\ pc = "done"
  /\ scenario.request.route = "/v1/responses"
  /\ scenario.manualApprove
  /\ scenario.models.loaded
  /\ \E i \in DOMAIN scenario.models.data :
       /\ scenario.models.data[i].id = scenario.request.model
       /\ scenario.models.data[i].hasEndpoints
       /\ scenario.models.data[i].supported_endpoints = {"/chat/completions"}
  /\ written = << InvalidRequest >>

(***************************************************************************)
(* Part 4: the request options of a Responses payload                      *)
(* (src/routes/responses/utils.ts).  payload.input is a string, absent, or *)
(* an array of input items; an item without a role member (function_call,  *)
(* function_call_output) has hasRole FALSE.                                *)
(***************************************************************************)
MaxItems == 2

Roles == {"user", "assistant", "Assistant", "ASSISTANT", "system", ""}

\* String.prototype.toLowerCase on the role alphabet
toLowerCase(text) ==
  CASE text \in {"Assistant", "ASSISTANT"} -> "assistant"
    [] text = "INPUT_IMAGE" -> "input_image"
    [] OTHER -> text

ContentParts ==
  {[type |-> "input_text"], [type |-> "input_image"], [type |-> "INPUT_IMAGE"]}

\* content: a string (isArray FALSE) or an array of content parts
ItemContents ==
  {[isArray |-> FALSE, parts |-> << >>]}
  \cup {[isArray |-> TRUE, parts |-> << p >>] : p \in ContentParts}

InputItems ==
  [type : {"message"}, hasRole : {TRUE}, role : Roles, content : ItemContents]
  \cup [type : {"function_call", "function_call_output"}, hasRole : {FALSE},
        role : {UNDEF}, content : {[isArray |-> FALSE, parts |-> << >>]}]

\* the payloads: input absent / a string (isArray FALSE) or an array of items
ResponsesPayloads(maxItems) ==
  {[hasInput |-> h, isArray |-> FALSE, input |-> << >>] : h \in BOOLEAN}
  \cup {[hasInput |-> TRUE, isArray |-> TRUE, input |-> items] :
          items \in UNION {[1..n -> InputItems] : n \in 0..maxItems}}

getPayloadItems(payload) ==
  IF payload.hasInput /\ payload.isArray THEN payload.input ELSE << >>

\* the callback of hasAgentInitiator, comparing the role as written
IsAgentItem_NoCaseFold(item) ==
  IF ~item.hasRole \/ item.role = "" THEN TRUE
  ELSE item.role = "assistant"

\* the callback of hasAgentInitiator
IsAgentItem(item) ==
  IF ~item.hasRole \/ item.role = "" THEN TRUE
  ELSE toLowerCase(item.role) = "assistant"

hasAgentInitiator(payload) ==
  \E i \in DOMAIN getPayloadItems(payload) :
    IsAgentItem(getPayloadItems(payload)[i])

\* containsVisionContent on an input item: its type, then its content array
containsVisionContent(item) ==
  \/ toLowerCase(item.type) = "input_image"
  \/ /\ item.content.isArray
     /\ \E j \in DOMAIN item.content.parts :
          toLowerCase(item.content.parts[j].type) = "input_image"

hasVisionInput(payload) ==
  \E i \in DOMAIN getPayloadItems(payload) :
    containsVisionContent(getPayloadItems(payload)[i])

getResponsesRequestOptions(payload) ==
  [vision |-> hasVisionInput(payload),
   initiator |-> IF hasAgentInitiator(payload) THEN "agent" ELSE "user"]

InitOptions ==
  /\ streamState = createResponsesStreamState
  /\ written = << >>
  /\ pc = "call"
  /\ consumed = 0
  /\ lastChunk = NoChunk
  /\ before = createResponsesStreamState
  /\ lastEvents = << >>
  /\ scenario \in ResponsesPayloads(MaxItems)
  /\ script = << >>
  /\ result = UNDEF

GetOptions ==
  /\ pc = "call"
  /\ result' = getResponsesRequestOptions(scenario)
  /\ pc' = "done"
  /\ UNCHANGED <<streamState, written, consumed, lastChunk, before, lastEvents,
                 scenario, script>>

NextOptions == GetOptions

SpecOptions == InitOptions /\ [][NextOptions]_vars

\* the item has role assistant in any letter case, or no role
AssistantOrNoRole(item) ==
  \/ ~item.hasRole
  \/ item.role = ""
  \/ item.role \in {"assistant", "Assistant", "ASSISTANT"}

(***************************************************************************)
(* C14: getResponsesRequestOptions returns initiator "agent" if and only   *)
(* if some item of the input array has role assistant (in any letter case) *)
(* or has no role; otherwise, and whenever input is a string or absent, it *)
(* returns "user".                                                         *)
(***************************************************************************)
C14_AgentInitiator ==
  pc = "done" =>
    /\ result.initiator \in {"agent", "user"}
    /\ result.initiator = "agent" <=>
         /\ scenario.hasInput
         /\ scenario.isArray
         /\ \E i \in DOMAIN scenario.input : AssistantOrNoRole(scenario.input[i])

C14_Witness ==
  /\ pc = "done"
  /\ result.initiator = "agent"
  /\ scenario.isArray
  /\ Len(scenario.input) = 2
  /\ scenario.input[1].role = "user"
  /\ scenario.input[2].role = "Assistant"

(***************************************************************************)
(* The argument texts parseFunctionCallArguments is applied to: the text   *)
(* of a JSON value (origin "value"), the same between white space          *)
(* ("padded"), without its last lexeme ("truncated"), followed by a word   *)
(* ("trailing"), an empty or white-space text ("blank"), and the text      *)
(* `not json` ("junk").                                                    *)
(***************************************************************************)
JsonScalars ==
  {JsonNull, [t |-> "bool", v |-> "true"], [t |-> "num", v |-> "1"],
   JsonString("x")}

JsonKeys == {"k", "j"}

SeqsUpTo(S, n) == UNION {[1..m -> S] : m \in 0..n}

ArraysOf(V) == {JsonArray(items) : items \in SeqsUpTo(V, MaxJsonLen)}

ObjectsOf(V) ==
  {JsonObject(members) :
     members \in {x \in SeqsUpTo([key : JsonKeys, value : V], MaxJsonLen) :
                    \A i, j \in DOMAIN x : i # j => x[i].key # x[j].key}}

FlatValues(scalars) == scalars \cup ArraysOf(scalars) \cup ObjectsOf(scalars)

JsonValues(flat) ==
  flat
  \cup {JsonArray(<< v >>) : v \in flat}
  \cup {JsonObject(<< Member(k, v) >>) : k \in JsonKeys, v \in flat}

WhiteSpace == [lex |-> "ws", text |-> " "]

Word == [lex |-> "word", text |-> "not"]

ArgumentTexts(values) ==
  {[origin |-> "value", value |-> v, text |-> JSONstringify(v)] :
     v \in values}
  \cup {[origin |-> "padded", value |-> v,
         text |-> << WhiteSpace >> \o JSONstringify(v) \o << WhiteSpace >>] :
          v \in values}
  \cup {[origin |-> "truncated", value |-> v,
         text |-> SubSeq(JSONstringify(v), 1, Len(JSONstringify(v)) - 1)] :
          v \in {x \in values : x.t \in {"arr", "obj"}}}
  \cup {[origin |-> "trailing", value |-> v,
         text |-> JSONstringify(v) \o << Word >>] : v \in values}
  \cup {[origin |-> "blank", value |-> JsonNull, text |-> text] :
          text \in {<< >>, << WhiteSpace >>, << WhiteSpace, WhiteSpace >>}}
  \cup {[origin |-> "junk", value |-> JsonNull, text |-> << Word, Word >>]}

InitArguments ==
  /\ streamState = createResponsesStreamState
  /\ written = << >>
  /\ pc = "call"
  /\ consumed = 0
  /\ lastChunk = NoChunk
  /\ before = createResponsesStreamState
  /\ lastEvents = << >>
  /\ scenario \in ArgumentTexts(JsonValues(FlatValues(JsonScalars)))
  /\ script = << >>
  /\ result = UNDEF

ParseArguments ==
  /\ pc = "call"
  /\ result' = parseFunctionCallArguments(scenario.text)
  /\ pc' = "done"
  /\ UNCHANGED <<streamState, written, consumed, lastChunk, before, lastEvents,
                 scenario, script>>

NextArguments == ParseArguments

SpecArguments == InitArguments /\ [][NextArguments]_vars

RawArguments(text) ==
  [t |-> "obj",
   members |-> << [key |-> "raw_arguments",
                   value |-> [t |-> "text", text |-> text]] >>]

(***************************************************************************)
(* C18: parseFunctionCallArguments returns an object for every string: {}  *)
(* for an empty or white-space string; the object itself for the text of a *)
(* JSON object (so the text JSON.stringify wrote for x gives x back);      *)
(* {arguments: a} for the text of an array a; {raw_arguments: the string}  *)
(* for the text of a scalar or null and for a text that does not parse.    *)
(***************************************************************************)
C18_ParseArgumentsTotal ==
  pc = "done" =>
    /\ result.t = "obj"
    /\ scenario.origin = "blank" => result = [t |-> "obj", members |-> << >>]
    /\ (scenario.origin \in {"value", "padded"} /\ scenario.value.t = "obj")
         => result = scenario.value
    /\ (scenario.origin \in {"value", "padded"} /\ scenario.value.t = "arr")
         => result = [t |-> "obj",
                      members |-> << [key |-> "arguments",
                                      value |-> scenario.value] >>]
    /\ (scenario.origin \in {"value", "padded"}
        /\ scenario.value.t \notin {"obj", "arr"})
         => result = RawArguments(scenario.text)
    /\ scenario.origin \in {"truncated", "trailing", "junk"}
         => result = RawArguments(scenario.text)

C18_Witness ==
  /\ pc = "done"
  /\ scenario.origin = "value"
  /\ scenario.value.t = "obj"
  /\ Len(scenario.value.members) = 1
  /\ scenario.value.members[1].value.t = "arr"
  /\ Len(scenario.value.members[1].value.items) = 2
  /\ result = scenario.value

(***************************************************************************)
(* Part 6: Anthropic requests.  A message is {role, content}; content is a *)
(* string (isArray FALSE, text) or an array of content blocks (isArray     *)
(* TRUE, blocks).  A conversation is one turn of at most MaxBlocks content *)
(* blocks, or two turns of three blocks in all; tool_use ids and           *)
(* tool_result ids are unique.                                             *)
(***************************************************************************)
MaxBlocks == 3

StringContent(text) == [isArray |-> FALSE, text |-> text, blocks |-> << >>]

ArrayContent(blocks) == [isArray |-> TRUE, text |-> UNDEF, blocks |-> blocks]

TextBlock(text) == [type |-> "text", text |-> text]

ImageBlock ==
  [type |-> "image",
   source |-> [type |-> "base64", media_type |-> "image/png", data |-> "AAAA"]]

ToolResultBlock(toolUseId, isError) ==
  [type |-> "tool_result", tool_use_id |-> toolUseId,
   content |-> StringContent("r-" \o toolUseId), is_error |-> isError]

ThinkingBlock(thinking, signature) ==
  [type |-> "thinking", thinking |-> thinking, signature |-> signature]

ToolUseBlock(id, name, input) ==
  [type |-> "tool_use", id |-> id, name |-> name, input |-> input]

ToolInputs ==
  {EmptyObject,
   JsonObject(<< Member("k", JsonString("x")) >>),
   JsonObject(<< Member("k", JsonArray(<< JsonNull, [t |-> "num", v |-> "1"] >>)),
                 Member("j", EmptyObject) >>)}

UserBlocks ==
  {TextBlock("a"), TextBlock(""), ImageBlock,
   ToolResultBlock("t1", FALSE), ToolResultBlock("t2", TRUE)}

AssistantBlocks ==
  {TextBlock("a"), TextBlock("b"), ThinkingBlock("th", "sig")}
  \cup {ToolUseBlock("t1", "n1", input) : input \in ToolInputs}
  \cup {ToolUseBlock("t2", "n2", EmptyObject)}

\* the tool ids of the blocks of the given type, in order
RECURSIVE ToolIdsOf(_, _)
ToolIdsOf(blocks, type) ==
  IF blocks = << >> THEN << >>
  ELSE (IF Head(blocks).type # type THEN << >>
        ELSE IF type = "tool_use" THEN << Head(blocks).id >>
        ELSE << Head(blocks).tool_use_id >>)
       \o ToolIdsOf(Tail(blocks), type)

UniqueIds(ids) == \A i, j \in DOMAIN ids : i # j => ids[i] # ids[j]

\* the turns with exactly k content blocks (k = 0: also the string turns)
TurnsWith(k) ==
  {[role |-> "user", content |-> ArrayContent(b)] : b \in [1..k -> UserBlocks]}
  \cup {[role |-> "assistant", content |-> ArrayContent(b)] :
          b \in [1..k -> AssistantBlocks]}
  \cup (IF k = 0
        THEN {[role |-> r, content |-> StringContent("hello")] :
                r \in {"user", "assistant"}}
        ELSE {})

TurnsUpTo(n) == UNION {TurnsWith(k) : k \in 0..n}

RECURSIVE AllBlocks(_)
AllBlocks(messages) ==
  IF messages = << >> THEN << >>
  ELSE Head(messages).content.blocks \o AllBlocks(Tail(messages))

Conversations(maxBlocks) ==
  {c \in {<< >>}
         \cup {<< m >> : m \in TurnsUpTo(maxBlocks)}
         \cup UNION {{<< m1, m2 >> : m1 \in TurnsWith(k),
                                     m2 \in TurnsUpTo(3 - k)} :
                       k \in 0..3} :
     /\ UniqueIds(ToolIdsOf(AllBlocks(c), "tool_use"))
     /\ UniqueIds(ToolIdsOf(AllBlocks(c), "tool_result"))}

\* payload.system: undefined (hasSystem FALSE) or a string
AnthropicPayloads(conversations) ==
  [messages : conversations, hasSystem : BOOLEAN, system : {"be brief"}]

(***************************************************************************)
(* Anthropic -> ChatCompletions (translateAnthropicMessagesToOpenAI).      *)
(* A message content of the result is a string, null, or a list of parts.  *)
(***************************************************************************)
OpenAIString(text) == [kind |-> "string", text |-> text]

OpenAIParts(parts) == [kind |-> "parts", parts |-> parts]

RECURSIVE TextsOf(_)
TextsOf(blocks) ==
  IF blocks = << >> THEN << >>
  ELSE (IF Head(blocks).type = "text" THEN << Head(blocks).text >> ELSE << >>)
       \o TextsOf(Tail(blocks))

DataUrl(block) ==
  "data:" \o block.source.media_type \o ";base64," \o block.source.data

RECURSIVE ContentPartsOf(_)
ContentPartsOf(blocks) ==
  IF blocks = << >> THEN << >>
  ELSE (IF Head(blocks).type = "text"
        THEN << [type |-> "text", text |-> Head(blocks).text] >>
        ELSE IF Head(blocks).type = "image"
        THEN << [type |-> "image_url",
                 image_url |-> [url |-> DataUrl(Head(blocks))]] >>
        ELSE << >>)
       \o ContentPartsOf(Tail(blocks))

mapContent(content) ==
  IF ~content.isArray THEN OpenAIString(content.text)
  ELSE IF ~\E i \in DOMAIN content.blocks : content.blocks[i].type = "image"
  THEN OpenAIString(Join(TextsOf(content.blocks), "\n\n"))
  ELSE OpenAIParts(ContentPartsOf(content.blocks))

handleSystemPrompt(payload) ==
  IF ~payload.hasSystem \/ payload.system = "" THEN << >>
  ELSE << [role |-> "system", content |-> OpenAIString(payload.system)] >>

IsToolResult(block) == block.type = "tool_result"

IsNotToolResult(block) == block.type # "tool_result"

RECURSIVE ToolMessages(_)
ToolMessages(toolResultBlocks) ==
  IF toolResultBlocks = << >> THEN << >>
  ELSE << [role |-> "tool",
           tool_call_id |-> Head(toolResultBlocks).tool_use_id,
           content |-> mapContent(Head(toolResultBlocks).content)] >>
       \o ToolMessages(Tail(toolResultBlocks))

UserMessage(otherBlocks) ==
  IF Len(otherBlocks) > 0
  THEN << [role |-> "user", content |-> mapContent(ArrayContent(otherBlocks))] >>
  ELSE << >>

handleUserMessage(message) ==
  IF message.content.isArray
  THEN ToolMessages(SelectSeq(message.content.blocks, IsToolResult))
       \o UserMessage(SelectSeq(message.content.blocks, IsNotToolResult))
  ELSE << [role |-> "user", content |-> mapContent(message.content)] >>

IsToolUse(block) == block.type = "tool_use"

IsThinking(block) == block.type = "thinking"

RECURSIVE ToolCalls(_)
ToolCalls(toolUseBlocks) ==
  IF toolUseBlocks = << >> THEN << >>
  ELSE << [id |-> Head(toolUseBlocks).id, type |-> "function",
           function |->
             [name |-> Head(toolUseBlocks).name,
              arguments |-> JSONstringify(Head(toolUseBlocks).input)]] >>
       \o ToolCalls(Tail(toolUseBlocks))

\* ToolCalls, were only the first tool_use block to become a tool call
ToolCallsOf_FirstOnly(blocks) ==
  ToolCalls(SubSeq(SelectSeq(blocks, IsToolUse), 1, 1))

\* toolUseBlocks.map(...) over message.content.filter(tool_use)
ToolCallsOf(blocks) == ToolCalls(SelectSeq(blocks, IsToolUse))

RECURSIVE ThinkingTexts(_)
ThinkingTexts(thinkingBlocks) ==
  IF thinkingBlocks = << >> THEN << >>
  ELSE (IF Head(thinkingBlocks).thinking # ""
        THEN << Head(thinkingBlocks).thinking >> ELSE << >>)
       \o ThinkingTexts(Tail(thinkingBlocks))

RECURSIVE FirstSignature(_)
FirstSignature(thinkingBlocks) ==
  IF thinkingBlocks = << >> THEN UNDEF
  ELSE IF Head(thinkingBlocks).signature # "" THEN Head(thinkingBlocks).signature
  ELSE FirstSignature(Tail(thinkingBlocks))

handleAssistantMessage(message) ==
  IF ~message.content.isArray
  THEN << [role |-> "assistant", content |-> mapContent(message.content)] >>
  ELSE IF \E i \in DOMAIN message.content.blocks :
            IsToolUse(message.content.blocks[i])
  THEN << [role |-> "assistant",
           content |-> mapContent(message.content),
           reasoning_text |->
             Join(ThinkingTexts(SelectSeq(message.content.blocks, IsThinking)),
                  "\n\n"),
           reasoning_opaque |->
             FirstSignature(SelectSeq(message.content.blocks, IsThinking)),
           tool_calls |-> ToolCallsOf(message.content.blocks)] >>
  ELSE << [role |-> "assistant",
           content |-> mapContent(message.content),
           reasoning_text |->
             Join(ThinkingTexts(SelectSeq(message.content.blocks, IsThinking)),
                  "\n\n"),
           reasoning_opaque |->
             FirstSignature(SelectSeq(message.content.blocks, IsThinking))] >>

RECURSIVE FlatMapMessages(_)
FlatMapMessages(anthropicMessages) ==
  IF anthropicMessages = << >> THEN << >>
  ELSE (IF Head(anthropicMessages).role = "user"
        THEN handleUserMessage(Head(anthropicMessages))
        ELSE handleAssistantMessage(Head(anthropicMessages)))
       \o FlatMapMessages(Tail(anthropicMessages))

translateAnthropicMessagesToOpenAI(payload) ==
  handleSystemPrompt(payload) \o FlatMapMessages(payload.messages)

(***************************************************************************)
(* The second copy of the Anthropic -> ChatCompletions translation, in     *)
(* src/unnamed/part_001 (names suffixed _part001).                         *)
(***************************************************************************)
RECURSIVE ToolMessages_part001(_)
ToolMessages_part001(toolResultBlocks) ==
  IF toolResultBlocks = << >> THEN << >>
  ELSE << [role |-> "tool",
           tool_call_id |-> Head(toolResultBlocks).tool_use_id,
           content |-> OpenAIString(Head(toolResultBlocks).content.text)] >>
       \o ToolMessages_part001(Tail(toolResultBlocks))

handleUserMessage_part001(message) ==
  IF message.content.isArray
  THEN UserMessage(SelectSeq(message.content.blocks, IsNotToolResult))
       \o ToolMessages_part001(SelectSeq(message.content.blocks, IsToolResult))
  ELSE << [role |-> "user", content |-> mapContent(message.content)] >>

\* textBlocks.map((b) => b.text).join("\n\n") || null
JoinedOrNull(text) == IF text = "" THEN [kind |-> "null"] ELSE OpenAIString(text)

handleAssistantMessage_part001(message) ==
  IF ~message.content.isArray
  THEN << [role |-> "assistant", content |-> mapContent(message.content)] >>
  ELSE IF \E i \in DOMAIN message.content.blocks :
            IsToolUse(message.content.blocks[i])
  THEN << [role |-> "assistant",
           content |-> JoinedOrNull(Join(TextsOf(message.content.blocks), "\n\n")),
           tool_calls |-> ToolCallsOf(message.content.blocks)] >>
  ELSE << [role |-> "assistant", content |-> mapContent(message.content)] >>

RECURSIVE FlatMapMessages_part001(_)
FlatMapMessages_part001(anthropicMessages) ==
  IF anthropicMessages = << >> THEN << >>
  ELSE (IF Head(anthropicMessages).role = "user"
        THEN handleUserMessage_part001(Head(anthropicMessages))
        ELSE handleAssistantMessage_part001(Head(anthropicMessages)))
       \o FlatMapMessages_part001(Tail(anthropicMessages))

translateAnthropicMessagesToOpenAI_part001(payload) ==
  handleSystemPrompt(payload) \o FlatMapMessages_part001(payload.messages)

(***************************************************************************)
(* Anthropic -> Responses (translateAnthropicMessagesToResponsesPayload).  *)
(***************************************************************************)
createMessage(role, content) ==
  [type |-> "message", role |-> role, content |-> content]

createTextContent(text) == [type |-> "input_text", text |-> text]

createOutPutTextContent(text) == [type |-> "output_text", text |-> text]

createImageContent(block) ==
  [type |-> "input_image", image_url |-> DataUrl(block)]

createFunctionToolCall(block) ==
  [type |-> "function_call", call_id |-> block.id, name |-> block.name,
   arguments |-> JSONstringify(block.input), status |-> "completed"]

\* createFunctionCallOutput, were is_error ignored
createFunctionCallOutput_AlwaysCompleted(block) ==
  [type |-> "function_call_output", call_id |-> block.tool_use_id,
   output |-> block.content.text, status |-> "completed"]

createFunctionCallOutput(block) ==
  [type |-> "function_call_output", call_id |-> block.tool_use_id,
   output |-> block.content.text,
   status |-> IF block.is_error THEN "incomplete" ELSE "completed"]

\* the converted content of a block, as a list (empty for `undefined`)
translateUserContentBlock(block) ==
  CASE block.type = "text" -> << createTextContent(block.text) >>
    [] block.type = "image" -> << createImageContent(block) >>
    [] OTHER -> << >>

\* translateAssistantContentBlock, were thinking blocks left out
translateAssistantContentBlock_TextOnly(block) ==
  CASE block.type = "text" -> << createOutPutTextContent(block.text) >>
    [] OTHER -> << >>

translateAssistantContentBlock(block) ==
  CASE block.type = "text" -> << createOutPutTextContent(block.text) >>
    [] block.type = "thinking" -> << createOutPutTextContent(block.thinking) >>
    [] OTHER -> << >>

isPlainText(content) ==
  "text" \in DOMAIN content /\ "image_url" \notin DOMAIN content

\* returns the target after the flush; the caller empties pendingContent
flushPendingContent(role, pendingContent, target) ==
  IF Len(pendingContent) = 0 THEN target
  ELSE Append(target,
              createMessage(role,
                            IF Len(pendingContent) = 1
                               /\ isPlainText(pendingContent[1])
                            THEN OpenAIString(pendingContent[1].text)
                            ELSE OpenAIParts(pendingContent)))

\* the loop of translateUserMessage over message.content
RECURSIVE TranslateUserBlocks(_, _, _)
TranslateUserBlocks(blocks, pendingContent, items) ==
  IF blocks = << >> THEN flushPendingContent("user", pendingContent, items)
  ELSE IF Head(blocks).type = "tool_result"
  THEN TranslateUserBlocks(
         Tail(blocks), << >>,
         Append(flushPendingContent("user", pendingContent, items),
                createFunctionCallOutput(Head(blocks))))
  ELSE TranslateUserBlocks(
         Tail(blocks), pendingContent \o translateUserContentBlock(Head(blocks)),
         items)

translateUserMessage(message) ==
  IF ~message.content.isArray
  THEN << createMessage("user", OpenAIString(message.content.text)) >>
  ELSE TranslateUserBlocks(message.content.blocks, << >>, << >>)

\* the loop of translateAssistantMessage over message.content
RECURSIVE TranslateAssistantBlocks(_, _, _)
TranslateAssistantBlocks(blocks, pendingContent, items) ==
  IF blocks = << >> THEN flushPendingContent("assistant", pendingContent, items)
  ELSE IF Head(blocks).type = "tool_use"
  THEN TranslateAssistantBlocks(
         Tail(blocks), << >>,
         Append(flushPendingContent("assistant", pendingContent, items),
                createFunctionToolCall(Head(blocks))))
  ELSE TranslateAssistantBlocks(
         Tail(blocks),
         pendingContent \o translateAssistantContentBlock(Head(blocks)), items)

translateAssistantMessage(message) ==
  IF ~message.content.isArray
  THEN << createMessage("assistant", OpenAIString(message.content.text)) >>
  ELSE TranslateAssistantBlocks(message.content.blocks, << >>, << >>)

translateMessage(message) ==
  IF message.role = "user" THEN translateUserMessage(message)
  ELSE translateAssistantMessage(message)

RECURSIVE TranslateMessages(_)
TranslateMessages(messages) ==
  IF messages = << >> THEN << >>
  ELSE translateMessage(Head(messages)) \o TranslateMessages(Tail(messages))

\* the members of the payload that depend on the messages
translateAnthropicMessagesToResponsesPayload(payload) ==
  [input |-> TranslateMessages(payload.messages), store |-> FALSE,
   parallel_tool_calls |-> TRUE]

InitRequest ==
  /\ streamState = createResponsesStreamState
  /\ written = << >>
  /\ pc = "call"
  /\ consumed = 0
  /\ lastChunk = NoChunk
  /\ before = createResponsesStreamState
  /\ lastEvents = << >>
  /\ scenario \in AnthropicPayloads(Conversations(MaxBlocks))
  /\ script = << >>
  /\ result = UNDEF

Returned(value) ==
  /\ pc = "call"
  /\ result' = value
  /\ pc' = "done"
  /\ UNCHANGED <<streamState, written, consumed, lastChunk, before, lastEvents,
                 scenario, script>>

TranslateToOpenAI ==
  Returned([target |-> "chat",
            messages |-> translateAnthropicMessagesToOpenAI(scenario)])

TranslateToOpenAI_part001 ==
  Returned([target |-> "chat",
            messages |-> translateAnthropicMessagesToOpenAI_part001(scenario)])

TranslateToResponses ==
  Returned([target |-> "responses",
            payload |-> translateAnthropicMessagesToResponsesPayload(scenario)])

NextRequest ==
  \/ TranslateToOpenAI
  \/ TranslateToOpenAI_part001
  \/ TranslateToResponses

SpecRequest == InitRequest /\ [][NextRequest]_vars

(***************************************************************************)
(* Claims about the Anthropic -> ChatCompletions request translation.      *)
(***************************************************************************)
ToolResultsOf(message) == SelectSeq(message.content.blocks, IsToolResult)

OthersOf(message) == SelectSeq(message.content.blocks, IsNotToolResult)

\* the number of chat messages one Anthropic turn stands for
ChatProduced(message) ==
  IF message.role = "user" /\ message.content.isArray
  THEN Len(ToolResultsOf(message))
       + (IF Len(OthersOf(message)) > 0 THEN 1 ELSE 0)
  ELSE 1

RECURSIVE ChatProducedBy(_)
ChatProducedBy(messages) ==
  IF messages = << >> THEN 0
  ELSE ChatProduced(Head(messages)) + ChatProducedBy(Tail(messages))

\* the index in the result before the first message of turn k
ChatOffset(payload, k) ==
  Len(handleSystemPrompt(payload))
  + ChatProducedBy(SubSeq(payload.messages, 1, k - 1))

\* the messages of the result that stand for turn k
ChatSegment(payload, messages, k) ==
  SubSeq(messages, ChatOffset(payload, k) + 1,
         ChatOffset(payload, k) + ChatProduced(payload.messages[k]))

TranslatedToChat == pc = "done" /\ result.target = "chat"

HasToolResultsAndOthers(message) ==
  /\ message.role = "user"
  /\ message.content.isArray
  /\ Len(ToolResultsOf(message)) > 0
  /\ Len(OthersOf(message)) > 0

\* the turns keep their order: the k-th segment holds messages of turn k's role
TurnsInOrder(payload, messages) ==
  /\ Len(messages)
       = Len(handleSystemPrompt(payload)) + ChatProducedBy(payload.messages)
  /\ \A k \in DOMAIN payload.messages :
       \A i \in DOMAIN ChatSegment(payload, messages, k) :
         IF payload.messages[k].role = "assistant"
         THEN ChatSegment(payload, messages, k)[i].role = "assistant"
         ELSE ChatSegment(payload, messages, k)[i].role \in {"tool", "user"}

\* the segment is the tool messages, in the order of the blocks, then the
\* one user message
ToolMessagesFirst(message, segment) ==
  /\ Len(segment) = Len(ToolResultsOf(message)) + 1
  /\ \A i \in 1..Len(ToolResultsOf(message)) :
       /\ segment[i].role = "tool"
       /\ segment[i].tool_call_id = ToolResultsOf(message)[i].tool_use_id
  /\ segment[Len(segment)].role = "user"

\* C15: in every Anthropic -> ChatCompletions translation, a user turn with
\* both tool_result blocks and other blocks yields all its role=tool messages,
\* in the order of the blocks, before its single role=user message, and the
\* turns keep their original order.
C15_ToolResultsBeforeUser ==
  TranslatedToChat =>
    /\ TurnsInOrder(scenario, result.messages)
    /\ \A k \in DOMAIN scenario.messages :
         HasToolResultsAndOthers(scenario.messages[k]) =>
           ToolMessagesFirst(scenario.messages[k],
                             ChatSegment(scenario, result.messages, k))

RECURSIVE AllToolCalls(_)
AllToolCalls(messages) ==
  IF messages = << >> THEN << >>
  ELSE (IF "tool_calls" \in DOMAIN Head(messages)
        THEN Head(messages).tool_calls ELSE << >>)
       \o AllToolCalls(Tail(messages))

IsToolMessage(message) == message.role = "tool"

\* how many entries of the sequence have the value id at the field
CountWith(entries, field, id) ==
  Cardinality({i \in DOMAIN entries : entries[i][field] = id})

\* C16: in every Anthropic -> ChatCompletions translation, every tool_use id
\* is the id of exactly one tool_call of the result, and every tool_result
\* block becomes exactly one role=tool message whose tool_call_id is the
\* block's tool_use_id.
C16_ToolIdsPreserved ==
  TranslatedToChat =>
    /\ \A i \in DOMAIN ToolIdsOf(AllBlocks(scenario.messages), "tool_use") :
         CountWith(AllToolCalls(result.messages), "id",
                   ToolIdsOf(AllBlocks(scenario.messages), "tool_use")[i]) = 1
    /\ \A i \in DOMAIN ToolIdsOf(AllBlocks(scenario.messages), "tool_result") :
         CountWith(SelectSeq(result.messages, IsToolMessage), "tool_call_id",
                   ToolIdsOf(AllBlocks(scenario.messages), "tool_result")[i]) = 1
    /\ Len(SelectSeq(result.messages, IsToolMessage))
         = Len(ToolIdsOf(AllBlocks(scenario.messages), "tool_result"))

C16_Witness ==
  /\ TranslatedToChat
  /\ Len(scenario.messages) = 2
  /\ Len(ToolIdsOf(scenario.messages[1].content.blocks, "tool_use")) = 2
  /\ Len(ToolIdsOf(scenario.messages[2].content.blocks, "tool_result")) = 1
  /\ Len(AllToolCalls(result.messages)) = 2
  /\ Len(SelectSeq(result.messages, IsToolMessage)) = 1

(***************************************************************************)
(* Claims about the Anthropic -> Responses request translation.            *)
(***************************************************************************)
\* the blocks that are emitted as items of their own, per role
IsItemBlock(role, block) ==
  IF role = "user" THEN block.type = "tool_result" ELSE block.type = "tool_use"

\* the number of maximal runs of blocks that are not items of their own
RunsIn(role, blocks) ==
  Cardinality({p \in DOMAIN blocks :
                 /\ ~IsItemBlock(role, blocks[p])
                 /\ (p = 1 \/ IsItemBlock(role, blocks[p - 1]))})

ItemBlocksIn(role, blocks) ==
  Cardinality({p \in DOMAIN blocks : IsItemBlock(role, blocks[p])})

\* the number of input items one Anthropic turn stands for
ResponsesProduced(message) ==
  IF ~message.content.isArray THEN 1
  ELSE ItemBlocksIn(message.role, message.content.blocks)
       + RunsIn(message.role, message.content.blocks)

RECURSIVE ResponsesProducedBy(_)
ResponsesProducedBy(messages) ==
  IF messages = << >> THEN 0
  ELSE ResponsesProduced(Head(messages)) + ResponsesProducedBy(Tail(messages))

\* the input items of the result that stand for turn k
ResponsesSegment(messages, input, k) ==
  SubSeq(input, ResponsesProducedBy(SubSeq(messages, 1, k - 1)) + 1,
         ResponsesProducedBy(SubSeq(messages, 1, k)))

TranslatedToResponses == pc = "done" /\ result.target = "responses"

IsUserArrayTurn(message) == message.role = "user" /\ message.content.isArray

\* the indexes of the function_call_output items of the segment for the id
OutputsFor(segment, id) ==
  {q \in DOMAIN segment :
     segment[q].type = "function_call_output" /\ segment[q].call_id = id}

\* the tool_result block at p has exactly one function_call_output in the
\* segment, with the block's status, and the item before it is a user message
\* exactly when the block before p is other content
OutputOfToolResult(blocks, p, segment) ==
  /\ Cardinality(OutputsFor(segment, blocks[p].tool_use_id)) = 1
  /\ \A q \in OutputsFor(segment, blocks[p].tool_use_id) :
       /\ segment[q].status
            = (IF blocks[p].is_error THEN "incomplete" ELSE "completed")
       /\ (q > 1 /\ segment[q - 1].type = "message"
                 /\ segment[q - 1].role = "user")
            <=> (p > 1 /\ blocks[p - 1].type # "tool_result")

IsMessageItem(item) == item.type = "message"

IsFunctionCallOutput(item) == item.type = "function_call_output"

AssistantTurns(maxBlocks) ==
  {[messages |-> << m >>, hasSystem |-> FALSE, system |-> "be brief"] :
     m \in {t \in TurnsUpTo(maxBlocks) :
              /\ t.role = "assistant"
              /\ t.content.isArray
              /\ UniqueIds(ToolIdsOf(t.content.blocks, "tool_use"))}}

\* a completed result whose output is the given items
ResultWithOutput(output) ==
  [Result("completed", UNDEF, 1, 1, NoNumber) EXCEPT !.output = output]

InitRoundTrip ==
  /\ streamState = createResponsesStreamState
  /\ written = << >>
  /\ pc = "call"
  /\ consumed = 0
  /\ lastChunk = NoChunk
  /\ before = createResponsesStreamState
  /\ lastEvents = << >>
  /\ scenario \in AssistantTurns(MaxBlocks)
  /\ script = << >>
  /\ result = UNDEF

RoundTripForward ==
  /\ pc = "call"
  /\ result' = [target |-> "responses",
                payload |-> translateAnthropicMessagesToResponsesPayload(scenario)]
  /\ pc' = "translated"
  /\ UNCHANGED <<streamState, written, consumed, lastChunk, before, lastEvents,
                 scenario, script>>

RoundTripBack ==
  /\ pc = "translated"
  /\ result' = [target |-> "anthropic",
                response |-> translateResponsesResultToAnthropic(
                               ResultWithOutput(result.payload.input))]
  /\ pc' = "back"
  /\ UNCHANGED <<streamState, written, consumed, lastChunk, before, lastEvents,
                 scenario, script>>

NextRoundTrip == RoundTripForward \/ RoundTripBack

SpecRoundTrip == InitRoundTrip /\ [][NextRoundTrip]_vars

\* the (id, name, input) triples of the tool_use blocks
TriplesOf(blocks) ==
  {<< blocks[i].id, blocks[i].name, blocks[i].input >> :
     i \in {j \in DOMAIN blocks : blocks[j].type = "tool_use"}}

\* the concatenation of the text blocks
TextOf(blocks) == Join(TextsOf(blocks), "")

\* the text of a run of text and thinking blocks that comes back: a run of
\* one block is sent as a string content, which is read back as no text
RunText(run) == IF Len(run) >= 2 THEN Join(run, "") ELSE ""

\* the texts of the runs of text and thinking blocks between tool_use blocks
RECURSIVE KeptText(_, _)
KeptText(blocks, run) ==
  IF blocks = << >> THEN RunText(run)
  ELSE IF Head(blocks).type = "tool_use"
  THEN RunText(run) \o KeptText(Tail(blocks), << >>)
  ELSE IF Head(blocks).type = "thinking"
  THEN KeptText(Tail(blocks), Append(run, Head(blocks).thinking))
  ELSE KeptText(Tail(blocks), Append(run, Head(blocks).text))

TranslatedBack == pc = "back" /\ result.target = "anthropic"

\* C19 as stated: the round trip of an assistant turn preserves the set of
\* (tool_use.id, name, input) triples and the concatenation of the text blocks.
C19_RoundTripPreservesText ==
  TranslatedBack =>
    /\ TriplesOf(result.response.content)
         = TriplesOf(scenario.messages[1].content.blocks)
    /\ TextOf(result.response.content)
         = TextOf(scenario.messages[1].content.blocks)

\* C19, amended: the round trip of an assistant turn preserves the set of
\* (tool_use.id, name, input) triples; the concatenation of the text blocks
\* that come back is the concatenation of the texts of the text and thinking
\* blocks of the runs of at least two such blocks between tool_use blocks.
C19_RoundTripPreservesToolUse ==
  TranslatedBack =>
    /\ TriplesOf(result.response.content)
         = TriplesOf(scenario.messages[1].content.blocks)
    /\ TextOf(result.response.content)
         = KeptText(scenario.messages[1].content.blocks, << >>)

C19_Witness ==
  /\ TranslatedBack
  /\ Len(scenario.messages[1].content.blocks) = 3
  /\ scenario.messages[1].content.blocks[1].type = "text"
  /\ scenario.messages[1].content.blocks[2].type = "thinking"
  /\ scenario.messages[1].content.blocks[3].type = "tool_use"
  /\ scenario.messages[1].content.blocks[3].input # EmptyObject
  /\ Len(result.response.content) = 2
  /\ result.response.content[1].type = "text"
  /\ result.response.content[2].type = "tool_use"
  /\ result.response.content[2].input
       = scenario.messages[1].content.blocks[3].input

(***************************************************************************)
(* ChatCompletions -> Anthropic (translateToAnthropic), and the upstream   *)
(* results both response translations are applied to.                      *)
(***************************************************************************)
MaxOutputItems == 3

ToolCall(id, name, arguments) ==
  [id |-> id, type |-> "function",
   function |-> [name |-> name, arguments |-> arguments]]

\* the lists of tool calls of a message; the third holds arguments that are
\* "", the last arguments that are "{"
ToolCallLists ==
  {<< ToolCall("t1", "n1", JSONstringify(EmptyObject)) >>,
   << ToolCall("t1", "n1", JSONstringify(EmptyObject)),
      ToolCall("t2", "n2",
               JSONstringify(JsonObject(<< Member("k", JsonString("x")) >>))) >>,
   << ToolCall("t3", "n3", << >>) >>,
   << ToolCall("t4", "n4", << Punct("{") >>) >>}

ChatContents == {[kind |-> "null"], OpenAIString(""), OpenAIString("hi")}

\* reasoning_text and reasoning_opaque, UNDEF when null or absent
Reasonings ==
  {[text |-> UNDEF, opaque |-> UNDEF], [text |-> "th", opaque |-> "sig"],
   [text |-> "", opaque |-> "sig"]}

FinishReasons == {"stop", "length", "content_filter", "tool_calls"}

ChatChoices ==
  {[message |-> [role |-> "assistant", content |-> c,
                 reasoning_text |-> r.text, reasoning_opaque |-> r.opaque],
    finish_reason |-> f] :
     c \in ChatContents, r \in Reasonings, f \in FinishReasons}
  \cup
  {[message |-> [role |-> "assistant", content |-> c,
                 reasoning_text |-> r.text, reasoning_opaque |-> r.opaque,
                 tool_calls |-> t],
    finish_reason |-> f] :
     c \in ChatContents, r \in Reasonings, f \in FinishReasons,
     t \in ToolCallLists}

\* a choice whose message is a plain text
PlainChoice(finishReason) ==
  [message |-> [role |-> "assistant", content |-> OpenAIString("hi"),
                reasoning_text |-> UNDEF, reasoning_opaque |-> UNDEF],
   finish_reason |-> finishReason]

\* no, one or two choices of any kind, or three plain choices
ChoiceLists(choices, finishReasons) ==
  {<< >>} \cup {<< c >> : c \in choices}
  \cup {<< c1, c2 >> : c1 \in choices, c2 \in choices}
  \cup {<< PlainChoice(f1), PlainChoice(f2), PlainChoice(f3) >> :
          f1 \in finishReasons, f2 \in finishReasons, f3 \in finishReasons}

\* prompt_tokens_details without cached_tokens
NoDetails == << >>

\* response.usage: NoNumber is a count that is missing, prompt_tokens_details
\* is optional and so is its cached_tokens
Usages(maxTokens) ==
  {[prompt_tokens |-> p, completion_tokens |-> c] :
     p \in {NoNumber} \cup 0..(maxTokens + 1), c \in {NoNumber} \cup 0..maxTokens}
  \cup
  {[prompt_tokens |-> p, completion_tokens |-> c, prompt_tokens_details |-> d] :
     p \in {NoNumber} \cup 0..(maxTokens + 1), c \in {NoNumber} \cup 0..maxTokens,
     d \in {NoDetails} \cup {[cached_tokens |-> k] : k \in 0..(maxTokens + 1)}}

\* ChatCompletionResponse without usage, and with it
ChatCompletionResponses(choiceLists, finishReasons, usages) ==
  {[id |-> "chatcmpl-1", model |-> "gpt-4o", choices |-> cs] :
     cs \in choiceLists}
  \cup
  {[id |-> "chatcmpl-1", model |-> "gpt-4o",
    choices |-> << PlainChoice(f) >>, usage |-> u] :
     f \in finishReasons, u \in usages}

IsTextPart(part) == part.type = "text"

RECURSIVE TextBlocksOfParts(_)
TextBlocksOfParts(parts) ==
  IF parts = << >> THEN << >>
  ELSE << [type |-> "text", text |-> Head(parts).text] >>
       \o TextBlocksOfParts(Tail(parts))

getAnthropicTextBlocks(messageContent) ==
  IF messageContent.kind = "string" /\ messageContent.text # ""
  THEN << [type |-> "text", text |-> messageContent.text] >>
  ELSE IF messageContent.kind = "parts"
  THEN TextBlocksOfParts(SelectSeq(messageContent.parts, IsTextPart))
  ELSE << >>

\* a string that is neither null, undefined nor ""
IsNonEmptyString(value) == value \notin {UNDEF, ""}

getAnthropicThinkBlocks(reasoningText, reasoningOpaque) ==
  IF IsNonEmptyString(reasoningText)
  THEN << [type |-> "thinking", thinking |-> reasoningText,
           signature |-> IF IsNonEmptyString(reasoningOpaque)
                         THEN reasoningOpaque ELSE ""] >>
  ELSE IF IsNonEmptyString(reasoningOpaque)
  THEN << [type |-> "thinking", thinking |-> "", signature |-> reasoningOpaque] >>
  ELSE << >>

\* choice.message.tool_calls, the empty list when it is undefined
ToolCallsAt(message) ==
  IF "tool_calls" \in DOMAIN message THEN message.tool_calls ELSE << >>

RECURSIVE getAnthropicToolUseBlocks(_)
getAnthropicToolUseBlocks(toolCalls) ==
  IF toolCalls = << >> THEN << >>
  ELSE << [type |-> "tool_use", id |-> Head(toolCalls).id,
           name |-> Head(toolCalls).function.name,
           input |-> JSONparse(Head(toolCalls).function.arguments).value] >>
       \o getAnthropicToolUseBlocks(Tail(toolCalls))

\* JSON.parse throws on the arguments of one of the tool calls
ParseThrows(toolCalls) ==
  \E i \in DOMAIN toolCalls : ~JSONparse(toolCalls[i].function.arguments).ok

\* the blocks of a choice, were the text put before the thinking
ChoiceBlocks_TextFirst(choice) ==
  getAnthropicTextBlocks(choice.message.content)
  \o getAnthropicThinkBlocks(choice.message.reasoning_text,
                             choice.message.reasoning_opaque)
  \o getAnthropicToolUseBlocks(ToolCallsAt(choice.message))

\* push(...thingBlocks, ...textBlocks, ...toolUseBlocks)
ChoiceBlocks(choice) ==
  getAnthropicThinkBlocks(choice.message.reasoning_text,
                          choice.message.reasoning_opaque)
  \o getAnthropicTextBlocks(choice.message.content)
  \o getAnthropicToolUseBlocks(ToolCallsAt(choice.message))

RECURSIVE assistantContentBlocks(_)
assistantContentBlocks(choices) ==
  IF choices = << >> THEN << >>
  ELSE ChoiceBlocks(Head(choices)) \o assistantContentBlocks(Tail(choices))

\* the loop's updates of stopReason
RECURSIVE StopReasonAfter(_, _)
StopReasonAfter(choices, stopReason) ==
  IF choices = << >> THEN stopReason
  ELSE StopReasonAfter(
         Tail(choices),
         IF Head(choices).finish_reason = "tool_calls" \/ stopReason = "stop"
         THEN Head(choices).finish_reason ELSE stopReason)

FirstFinishReason(choices) ==
  IF choices = << >> THEN "null" ELSE choices[1].finish_reason

\* the outcome of a translation that throws
Thrown == [thrown |-> TRUE]

\* response.usage, every count missing when the response has none
UsageOf(response) ==
  IF "usage" \in DOMAIN response THEN response.usage
  ELSE [prompt_tokens |-> NoNumber, completion_tokens |-> NoNumber]

\* usage.prompt_tokens_details?.cached_tokens !== undefined
HasCachedTokens(usage) ==
  /\ "prompt_tokens_details" \in DOMAIN usage
  /\ "cached_tokens" \in DOMAIN usage.prompt_tokens_details

\* the usage, were the cached tokens left in input_tokens
AnthropicUsage_CachedCounted(usage) ==
  IF HasCachedTokens(usage)
  THEN [input_tokens |-> toNumber(usage.prompt_tokens),
        output_tokens |-> toNumber(usage.completion_tokens),
        cache_read_input_tokens |-> usage.prompt_tokens_details.cached_tokens]
  ELSE [input_tokens |-> toNumber(usage.prompt_tokens),
        output_tokens |-> toNumber(usage.completion_tokens)]

\* the usage member of the response of translateToAnthropic
AnthropicUsage(usage) ==
  IF HasCachedTokens(usage)
  THEN [input_tokens |-> toNumber(usage.prompt_tokens)
                         - usage.prompt_tokens_details.cached_tokens,
        output_tokens |-> toNumber(usage.completion_tokens),
        cache_read_input_tokens |-> usage.prompt_tokens_details.cached_tokens]
  ELSE [input_tokens |-> toNumber(usage.prompt_tokens),
        output_tokens |-> toNumber(usage.completion_tokens)]

\* the usage member in the copy of src/unnamed/part_001
AnthropicUsage_part001(usage) ==
  [input_tokens |-> toNumber(usage.prompt_tokens),
   output_tokens |-> toNumber(usage.completion_tokens)]

\* stopReason is the argument of mapOpenAIStopReasonToAnthropic
translateToAnthropic(response) ==
  IF \E i \in DOMAIN response.choices :
       ParseThrows(ToolCallsAt(response.choices[i].message))
  THEN Thrown
  ELSE [thrown |-> FALSE, id |-> response.id, type |-> "message",
        role |-> "assistant", model |-> response.model,
        content |-> assistantContentBlocks(response.choices),
        stopReason |-> StopReasonAfter(response.choices,
                                       FirstFinishReason(response.choices)),
        stop_sequence |-> "null",
        usage |-> AnthropicUsage(UsageOf(response))]

getAnthropicTextBlocks_part001(messageContent) ==
  IF messageContent.kind = "string"
  THEN << [type |-> "text", text |-> messageContent.text] >>
  ELSE IF messageContent.kind = "parts"
  THEN TextBlocksOfParts(SelectSeq(messageContent.parts, IsTextPart))
  ELSE << >>

\* the copy of src/unnamed/part_001: the first choice only, no thinking
translateToAnthropic_part001(response) ==
  IF response.choices = << >>
     \/ ParseThrows(ToolCallsAt(response.choices[1].message))
  THEN Thrown
  ELSE [thrown |-> FALSE, id |-> response.id, type |-> "message",
        role |-> "assistant", model |-> response.model,
        content |->
          getAnthropicTextBlocks_part001(response.choices[1].message.content)
          \o getAnthropicToolUseBlocks(ToolCallsAt(response.choices[1].message)),
        stopReason |-> response.choices[1].finish_reason,
        stop_sequence |-> "null",
        usage |-> AnthropicUsage_part001(UsageOf(response))]

\* the output items of a Responses result
OutputItems ==
  {[type |-> "reasoning", summary |-> << [type |-> "summary_text", text |-> "th"] >>],
   [type |-> "reasoning", summary |-> << [type |-> "summary_text", text |-> " "] >>],
   [type |-> "message", role |-> "assistant",
    content |-> OpenAIParts(<< createOutPutTextContent("hi") >>)],
   [type |-> "message", role |-> "assistant",
    content |-> OpenAIParts(<< [type |-> "refusal", refusal |-> "no"] >>)],
   [type |-> "function_call", call_id |-> "c1", name |-> "n1",
    arguments |-> JSONstringify(EmptyObject), status |-> "completed"],
   [type |-> "function_call", id |-> "fc_2", name |-> "n2",
    arguments |-> << >>, status |-> "completed"],
   [type |-> "function_call_output", call_id |-> "c1", output |-> "out"],
   [type |-> "web_search_call", id |-> "ws_1"]}

ResponsesResults(maxOutputItems) ==
  {[ResultWithOutput(o) EXCEPT !.output_text = t] :
     o \in SeqsUpTo(OutputItems, maxOutputItems), t \in {"", "fallback"}}

InitResult ==
  /\ streamState = createResponsesStreamState
  /\ written = << >>
  /\ pc = "call"
  /\ consumed = 0
  /\ lastChunk = NoChunk
  /\ before = createResponsesStreamState
  /\ lastEvents = << >>
  /\ scenario \in {[upstream |-> "chat", response |-> r] :
                     r \in ChatCompletionResponses(
                            ChoiceLists(ChatChoices, FinishReasons),
                            FinishReasons, Usages(MaxTokens))}
                  \cup {[upstream |-> "responses", response |-> r] :
                          r \in ResponsesResults(MaxOutputItems)}
  /\ script = << >>
  /\ result = UNDEF

TranslateToAnthropic ==
  /\ scenario.upstream = "chat"
  /\ Returned([via |-> "translateToAnthropic",
               response |-> translateToAnthropic(scenario.response)])

TranslateToAnthropic_part001 ==
  /\ scenario.upstream = "chat"
  /\ Returned([via |-> "translateToAnthropic_part001",
               response |-> translateToAnthropic_part001(scenario.response)])

TranslateResponsesResult ==
  /\ scenario.upstream = "responses"
  /\ Returned([via |-> "translateResponsesResultToAnthropic",
               response |->
                 [thrown |-> FALSE,
                  message |->
                    translateResponsesResultToAnthropic(scenario.response)]])

NextResult ==
  \/ TranslateToAnthropic
  \/ TranslateToAnthropic_part001
  \/ TranslateResponsesResult

SpecResult == InitResult /\ [][NextResult]_vars

(***************************************************************************)
(* Claims about the order of the blocks of a translated response.          *)
(***************************************************************************)
\* thinking 1, text 2, tool_use 3
BlockRank(block) ==
  IF block.type = "thinking" THEN 1 ELSE IF block.type = "text" THEN 2 ELSE 3

CanonicalOrder(blocks) ==
  \A i, j \in DOMAIN blocks : i < j => BlockRank(blocks[i]) <= BlockRank(blocks[j])

\* reasoning 1, function_call 3, the items that give text 2
ItemRank(item) ==
  IF item.type = "reasoning" THEN 1
  ELSE IF item.type = "function_call" THEN 3 ELSE 2

CanonicalItems(output) ==
  \A i, j \in DOMAIN output : i < j => ItemRank(output[i]) <= ItemRank(output[j])

\* the number of blocks a choice stands for
BlocksOfChoice(choice) ==
  (IF IsNonEmptyString(choice.message.reasoning_text)
      \/ IsNonEmptyString(choice.message.reasoning_opaque) THEN 1 ELSE 0)
  + (IF choice.message.content.kind = "string"
        /\ choice.message.content.text # "" THEN 1 ELSE 0)
  + Len(ToolCallsAt(choice.message))

RECURSIVE BlocksOfChoices(_)
BlocksOfChoices(choices) ==
  IF choices = << >> THEN 0
  ELSE BlocksOfChoice(Head(choices)) + BlocksOfChoices(Tail(choices))

\* the blocks of the content that stand for choice k
ChoiceSegment(choices, content, k) ==
  SubSeq(content, BlocksOfChoices(SubSeq(choices, 1, k - 1)) + 1,
         BlocksOfChoices(SubSeq(choices, 1, k)))

TranslatedResult == pc = "done" /\ "via" \in DOMAIN result /\ ~result.response.thrown

\* the content array of the translated response
ContentOfResult ==
  IF result.via = "translateResponsesResultToAnthropic"
  THEN result.response.message.content ELSE result.response.content

\* C20 as stated: in the content array of every translated Anthropic
\* response, for any number of choices and any order of the output items, all
\* thinking blocks come before all text blocks and all text blocks before all
\* tool_use blocks.
C20_CanonicalOrderAlways == TranslatedResult => CanonicalOrder(ContentOfResult)

\* C20, amended: translateToAnthropic puts the blocks of each choice in the
\* order thinking, text, tool_use and the choices one after the other;
\* translateResponsesResultToAnthropic gives the order thinking, text, tool_use
\* whenever the output items come as reasoning, then the items that give
\* text, then function_call.
C20_CanonicalOrderPerChoice ==
  TranslatedResult =>
    CASE result.via = "translateToAnthropic" ->
           /\ Len(ContentOfResult) = BlocksOfChoices(scenario.response.choices)
           /\ \A k \in DOMAIN scenario.response.choices :
                CanonicalOrder(ChoiceSegment(scenario.response.choices,
                                             ContentOfResult, k))
      [] result.via = "translateToAnthropic_part001" ->
           CanonicalOrder(ContentOfResult)
      [] OTHER ->
           CanonicalItems(scenario.response.output)
             => CanonicalOrder(ContentOfResult)

C20_Witness ==
  /\ TranslatedResult
  /\ result.via = "translateToAnthropic"
  /\ Len(scenario.response.choices) = 2
  /\ BlocksOfChoice(scenario.response.choices[1]) = 3
  /\ BlocksOfChoice(scenario.response.choices[2]) = 4
  /\ Len(ContentOfResult) = 7
  /\ ContentOfResult[3].type = "tool_use"
  /\ ContentOfResult[4].type = "thinking"

(***************************************************************************)
(* Claims about the stop reason and the usage of translateToAnthropic.     *)
(***************************************************************************)
TranslatedBy(via) == TranslatedResult /\ result.via = via

AnyToolCalls(choices) ==
  \E i \in DOMAIN choices : choices[i].finish_reason = "tool_calls"

\* C21: over a response with several choices, the finish reason that
\* translateToAnthropic maps to stop_reason is tool_calls when some choice
\* has finish_reason tool_calls, and the finish_reason of the first choice
\* otherwise.
C21_ToolCallsThenFirstChoice ==
  (TranslatedBy("translateToAnthropic")
   /\ Len(scenario.response.choices) >= 2)
  => result.response.stopReason
       = IF AnyToolCalls(scenario.response.choices) THEN "tool_calls"
         ELSE scenario.response.choices[1].finish_reason

\* C22: the usage of the response of translateToAnthropic has input_tokens =
\* prompt_tokens - cached_tokens (a missing value counts as 0), output_tokens
\* = completion_tokens, and cache_read_input_tokens exactly when
\* cached_tokens is present, and then equal to it, so that input_tokens +
\* cache_read_input_tokens = prompt_tokens.
C22_UsageSplitsCachedTokens ==
  TranslatedBy("translateToAnthropic")
  => /\ result.response.usage.input_tokens
          = toNumber(UsageOf(scenario.response).prompt_tokens)
            - (IF HasCachedTokens(UsageOf(scenario.response))
               THEN UsageOf(scenario.response).prompt_tokens_details.cached_tokens
               ELSE 0)
     /\ result.response.usage.output_tokens
          = toNumber(UsageOf(scenario.response).completion_tokens)
     /\ ("cache_read_input_tokens" \in DOMAIN result.response.usage)
          = HasCachedTokens(UsageOf(scenario.response))
     /\ HasCachedTokens(UsageOf(scenario.response))
        => /\ result.response.usage.cache_read_input_tokens
                = UsageOf(scenario.response).prompt_tokens_details.cached_tokens
           /\ result.response.usage.input_tokens
              + result.response.usage.cache_read_input_tokens
                = toNumber(UsageOf(scenario.response).prompt_tokens)

\* a response with 2 prompt tokens of which 1 is cached was translated
C22_Witness ==
  /\ TranslatedBy("translateToAnthropic")
  /\ "usage" \in DOMAIN scenario.response
  /\ HasCachedTokens(scenario.response.usage)
  /\ scenario.response.usage.prompt_tokens = 2
  /\ scenario.response.usage.prompt_tokens_details.cached_tokens = 1
  /\ result.response.usage.input_tokens = 1
  /\ result.response.usage.cache_read_input_tokens = 1

(***************************************************************************)
(* The terminal event of a stream, and the same response translated by     *)
(* translateResponsesResultToAnthropic.  The upstream stream is an         *)
(* optional text delta followed by response.completed or                   *)
(* response.incomplete; the response member is a ResponsesResult of any    *)
(* status and incomplete_details.reason (UNDEF: no incomplete_details), a  *)
(* record that is no ResponsesResult, or absent.                           *)
(***************************************************************************)
Statuses == {"completed", "incomplete", "failed", "in_progress"}

IncompleteReasons ==
  {UNDEF, "max_output_tokens", "content_filter", "tool_use", "other"}

FinalResponses(maxTokens) ==
  {NoResponse, PartialResponse}
  \cup {Result(s, r, i, 1, NoNumber) :
          s \in Statuses, r \in IncompleteReasons, i \in 0..maxTokens}

TerminalScenarios(maxTokens) ==
  {[type |-> t, response |-> r, textFirst |-> b] :
     t \in {"response.completed", "response.incomplete"},
     r \in FinalResponses(maxTokens), b \in BOOLEAN}

TerminalScript(sc) ==
  (IF sc.textFirst
   THEN << Chunk([type |-> "response.output_text.delta", output_index |-> 0,
                  content_index |-> 0, delta |-> "x"]) >>
   ELSE << >>)
  \o << Chunk([type |-> sc.type, response |-> sc.response]) >>

InitTerminal ==
  /\ streamState = createResponsesStreamState
  /\ written = << >>
  /\ pc = "loop"
  /\ consumed = 0
  /\ lastChunk = NoChunk
  /\ before = createResponsesStreamState
  /\ lastEvents = << >>
  /\ scenario \in TerminalScenarios(MaxTokens)
  /\ script = TerminalScript(scenario)
  /\ result = UNDEF

\* the non-streaming translation of the response the stream ended with
TranslateFinalResponse ==
  /\ pc = "done"
  /\ isResponsesResult(scenario.response)
  /\ result' = translateResponsesResultToAnthropic(scenario.response)
  /\ pc' = "translated"
  /\ UNCHANGED <<streamState, written, consumed, lastChunk, before,
                 lastEvents, scenario, script>>

NextTerminal == Deliver \/ AfterLoop \/ TranslateFinalResponse

SpecTerminal == InitTerminal /\ [][NextTerminal]_vars

\* the stop_reason the mapping rule gives
ExpectedStopReason(response) ==
  IF response.status = "completed" THEN "end_turn"
  ELSE IF response.status # "incomplete" THEN "null"
  ELSE CASE response.reason = "max_output_tokens" -> "max_tokens"
         [] response.reason = "content_filter" -> "end_turn"
         [] response.reason = "tool_use" -> "tool_use"
         [] OTHER -> "null"

MessageDeltas == SelectSeq(written, LAMBDA e : e.type = "message_delta")

\* C23: the stop_reason of translateResponsesResultToAnthropic is end_turn
\* for status completed; max_tokens, end_turn or tool_use for status
\* incomplete with reason max_output_tokens, content_filter or tool_use; null
\* otherwise.  The message_delta of the stream carries the same value, and
\* null when the terminal event has no valid response object.
C23_StopReasonMapping ==
  /\ pc = "translated"
     => result.stop_reason = ExpectedStopReason(scenario.response)
  /\ \A i \in DOMAIN MessageDeltas :
       MessageDeltas[i].stop_reason
         = IF isResponsesResult(scenario.response)
           THEN ExpectedStopReason(scenario.response) ELSE "null"
  /\ pc \in {"done", "translated"} => Len(MessageDeltas) = 1

\* an incomplete response stopped by the content filter ended a stream and was
\* translated
C23_Witness ==
  /\ pc = "translated"
  /\ scenario.response.status = "incomplete"
  /\ scenario.response.reason = "content_filter"
  /\ result.stop_reason = "end_turn"
  /\ Len(MessageDeltas) = 1
  /\ MessageDeltas[1].stop_reason = "end_turn"

(***************************************************************************)
(* POST /v1/messages/count_tokens (handleCountTokens).  A string whose     *)
(* prefix is tested is the sequence of its segments ("claude-sonnet-4" is  *)
(* << "claude", "-sonnet-4" >>).  The tokenizer is outside the program:    *)
(* its result, or its throwing, is an input.                               *)
(***************************************************************************)
\* String.prototype.startsWith
StartsWith(text, prefix) ==
  /\ Len(text) >= Len(prefix)
  /\ SubSeq(text, 1, Len(prefix)) = prefix

CountModels ==
  {<< "claude", "-sonnet-4" >>, << "grok", "-code-fast-1" >>, << "gpt-5" >>,
   << "x-", "claude" >>}

\* the anthropic-beta header, << >> when the request has none
BetaHeaders == {<< >>, << "claude-code", "-20250219" >>, << "other" >>}

ToolNameLists ==
  {<< >>, << << "read" >> >>, << << "mcp__", "fs" >> >>,
   << << "read" >>, << "mcp__", "fs" >> >>, << << "x", "mcp__" >> >>}

\* the ids of state.models.data (loaded FALSE: state.models is undefined)
CountCatalogs ==
  {[loaded |-> FALSE, ids |-> {}], [loaded |-> TRUE, ids |-> {}],
   [loaded |-> TRUE, ids |-> CountModels],
   [loaded |-> TRUE, ids |-> CountModels \ {<< "claude", "-sonnet-4" >>}]}

TokenCounts ==
  {[input |-> i, output |-> o] : i \in {0, 4, 10, 50, 100}, o \in {0, 1}}

\* the step that throws: none, c.req.json, translateToOpenAI or getTokenCount
ThrowingSteps == {"none", "json", "translateToOpenAI", "getTokenCount"}

\* hasTools FALSE: the payload has no tools member
CountScenarios(tokenCounts) ==
  {[anthropicBeta |-> b, model |-> m, hasTools |-> h.has, tools |-> h.tools,
    models |-> c, tokenCount |-> n, throws |-> x] :
     b \in BetaHeaders, m \in CountModels,
     h \in {[has |-> FALSE, tools |-> << >>]}
           \cup {[has |-> TRUE, tools |-> t] : t \in ToolNameLists},
     c \in CountCatalogs, n \in tokenCounts, x \in ThrowingSteps}

\* the largest e with 2^e * den <= num, from e upwards
RECURSIVE ExponentFrom(_, _, _)
ExponentFrom(num, den, e) ==
  IF 2 ^ (e + 1) * den <= num THEN ExponentFrom(num, den, e + 1) ELSE e

\* Math.round(count * 1.03): the double product is on the side of the exact
\* product, halves go up (no count of the model is large enough to differ)
MathRoundTimes103(count) == (103 * count + 50) \div 100

\* Math.round(count * 1.15), were it to truncate
MathRoundTimes115_Truncating(count) == (115 * count) \div 100

\* Math.round(count * 1.15) in IEEE 754 doubles.  The double 1.15 is
\* 1.15 - 0.4 * 2^-52, so the product is below the exact one by
\* 0.4 * count * 2^-52; that matters only when the exact product ends in .5
\* (count = 10 mod 20), and then the double product is below the half, and is
\* rounded down, when 0.4 * count exceeds half the spacing 2^e of the doubles
\* there.
MathRoundTimes115(count) ==
  IF count % 20 = 10 /\ 4 * count > 5 * 2 ^ ExponentFrom(23 * count, 20, 0)
  THEN (115 * count + 50) \div 100 - 1
  ELSE (115 * count + 50) \div 100

Claude == << "claude" >>

Grok == << "grok" >>

\* anthropicPayload.tools.some((tool) => tool.name.startsWith("mcp__")),
\* asked only when anthropic-beta starts with claude-code
mcpToolExist(sc) ==
  /\ StartsWith(sc.anthropicBeta, << "claude-code" >>)
  /\ \E i \in DOMAIN sc.tools : StartsWith(sc.tools[i], << "mcp__" >>)

\* tokenCount.input after the tool adjustment
AdjustedInput(sc) ==
  IF sc.hasTools /\ Len(sc.tools) > 0 /\ ~mcpToolExist(sc)
  THEN IF StartsWith(sc.model, Claude) THEN sc.tokenCount.input + 346
       ELSE IF StartsWith(sc.model, Grok) THEN sc.tokenCount.input + 480
       ELSE sc.tokenCount.input
  ELSE sc.tokenCount.input

finalTokenCount(sc) ==
  IF StartsWith(sc.model, Claude)
  THEN MathRoundTimes115(AdjustedInput(sc) + sc.tokenCount.output)
  ELSE IF StartsWith(sc.model, Grok)
  THEN MathRoundTimes103(AdjustedInput(sc) + sc.tokenCount.output)
  ELSE AdjustedInput(sc) + sc.tokenCount.output

ModelFound(sc) == sc.models.loaded /\ sc.model \in sc.models.ids

handleCountTokens(sc) ==
  IF sc.throws \in {"json", "translateToOpenAI"} THEN [input_tokens |-> 1]
  ELSE IF ~ModelFound(sc) THEN [input_tokens |-> 1]
  ELSE IF sc.throws = "getTokenCount" THEN [input_tokens |-> 1]
  ELSE [input_tokens |-> finalTokenCount(sc)]

InitCountTokens ==
  /\ streamState = createResponsesStreamState
  /\ written = << >>
  /\ pc = "call"
  /\ consumed = 0
  /\ lastChunk = NoChunk
  /\ before = createResponsesStreamState
  /\ lastEvents = << >>
  /\ scenario \in CountScenarios(TokenCounts)
  /\ script = << >>
  /\ result = UNDEF

HandleCountTokens == Returned(handleCountTokens(scenario))

NextCountTokens == HandleCountTokens

SpecCountTokens == InitCountTokens /\ [][NextCountTokens]_vars

\* the allowance a of the rule, and its factor f in hundredths
ToolAllowance(sc) ==
  IF sc.hasTools /\ sc.tools # << >>
     /\ ~(StartsWith(sc.anthropicBeta, << "claude-code" >>)
          /\ \E i \in DOMAIN sc.tools : StartsWith(sc.tools[i], << "mcp__" >>))
  THEN IF StartsWith(sc.model, Claude) THEN 346
       ELSE IF StartsWith(sc.model, Grok) THEN 480 ELSE 0
  ELSE 0

FactorHundredths(sc) ==
  IF StartsWith(sc.model, Claude) THEN 115
  ELSE IF StartsWith(sc.model, Grok) THEN 103 ELSE 100

\* n is an integer nearest to hundredths / 100
IsRounded(n, hundredths) ==
  /\ 100 * n - hundredths <= 50
  /\ hundredths - 100 * n <= 50

\* C24: count_tokens answers input_tokens = 1 when the model is not in the
\* catalog or a step throws, and otherwise f * (input + output + a) rounded
\* to a nearest integer, a being 346 (claude) or 480 (grok) when the payload
\* has a tool and not (anthropic-beta starts with claude-code and a tool name
\* starts with mcp__), f being 1.15 (claude), 1.03 (grok) or 1.
C24_CountTokens ==
  pc = "done"
  => IF scenario.throws # "none" \/ ~ModelFound(scenario)
     THEN result.input_tokens = 1
     ELSE IsRounded(result.input_tokens,
                    FactorHundredths(scenario)
                    * (scenario.tokenCount.input + scenario.tokenCount.output
                       + ToolAllowance(scenario)))

\* one tool, claude-sonnet-4 and the tokenizer result {input: 100, output: 0}
\* gave 513
C24_Witness ==
  /\ pc = "done"
  /\ scenario.model = << "claude", "-sonnet-4" >>
  /\ scenario.hasTools
  /\ scenario.tools = << << "read" >> >>
  /\ scenario.tokenCount = [input |-> 100, output |-> 0]
  /\ scenario.throws = "none"
  /\ ModelFound(scenario)
  /\ result.input_tokens = 513

(***************************************************************************)
(* Claims about malformed upstream input.                                  *)
(***************************************************************************)
\* C25: translation never panics: for every upstream ChatCompletions
\* response, one whose tool call arguments are empty or are not valid JSON
\* included, translateToAnthropic returns an Anthropic response instead of
\* throwing.
C25_TranslateToAnthropicReturns ==
  (pc = "done" /\ "via" \in DOMAIN result
   /\ result.via = "translateToAnthropic")
  => ~result.response.thrown

(***************************************************************************)
(* ChatCompletions -> Responses request translation                        *)
(* (translateOpenAIPayloadToResponsesPayload of                            *)
(* src/routes/chat-completions/responses-translation.ts).                  *)
(***************************************************************************)
\* messages of a ChatCompletions payload
MaxMessages == 3

ChatTextPart == [type |-> "text", text |-> "p"]

NullContent == [kind |-> "null"]

CallOne == ToolCall("t1", "n1", JSONstringify(EmptyObject))

CallTwo == ToolCall("t2", "n2", << >>)

\* the messages of a payload: system, user, assistant without and with
\* tool_calls (content null, "", a text, [], an array of parts), tool with and
\* without tool_call_id
ChatMessages ==
  {[role |-> "system", content |-> OpenAIString("sys")],
   [role |-> "user", content |-> OpenAIString("hi")],
   [role |-> "user", content |-> OpenAIParts(<< ChatTextPart >>)],
   [role |-> "assistant", content |-> OpenAIString("ok")],
   [role |-> "tool", content |-> OpenAIString("r")]}
  \cup {[role |-> "assistant", content |-> c, tool_calls |-> << CallOne >>] :
          c \in {NullContent, OpenAIString(""), OpenAIParts(<< >>),
                 OpenAIParts(<< ChatTextPart >>)}}
  \cup {[role |-> "assistant", content |-> c, tool_calls |-> t] :
          c \in {NullContent, OpenAIString("ok")},
          t \in {<< >>, << CallOne, CallTwo >>}}
  \cup {[role |-> "tool", tool_call_id |-> "t1", content |-> OpenAIString("r")],
        [role |-> "tool", tool_call_id |-> "t2",
         content |-> OpenAIParts(<< ChatTextPart >>)],
        [role |-> "tool", tool_call_id |-> "t9", content |-> NullContent]}

ChatPayloads(maxMessages) ==
  {[model |-> "gpt-5", messages |-> m] : m \in SeqsUpTo(ChatMessages, maxMessages)}

PartJson(part) ==
  JsonObject(<< Member("type", JsonString(part.type)),
                Member("text", JsonString(part.text)) >>)

ContentJson(content) ==
  IF content.kind = "null" THEN JsonNull
  ELSE JsonArray([i \in DOMAIN content.parts |-> PartJson(content.parts[i])])

\* typeof content === "string" ? content : JSON.stringify(content)
StringOrStringified(content) ==
  IF content.kind = "string" THEN content
  ELSE JsText(JSONstringify(ContentJson(content)))

\* if (message.content): null and "" are falsy, every array is truthy
IsTruthyContent(content) ==
  \/ content.kind = "string" /\ content.text # ""
  \/ content.kind = "parts"

RECURSIVE FunctionCallItems(_)
FunctionCallItems(toolCalls) ==
  IF toolCalls = << >> THEN << >>
  ELSE << [type |-> "function_call", call_id |-> Head(toolCalls).id,
           name |-> Head(toolCalls).function.name,
           arguments |-> Head(toolCalls).function.arguments,
           status |-> "completed"] >>
       \o FunctionCallItems(Tail(toolCalls))

\* translateMessage of chat-completions/responses-translation.ts
translateChatMessage(message) ==
  IF message.role = "tool"
  THEN << [type |-> "function_call_output",
           call_id |-> IF "tool_call_id" \in DOMAIN message
                       THEN message.tool_call_id ELSE "",
           output |-> StringOrStringified(message.content)] >>
  ELSE IF message.role = "assistant" /\ "tool_calls" \in DOMAIN message
  THEN (IF IsTruthyContent(message.content)
        THEN << [type |-> "message", role |-> "assistant",
                 content |-> StringOrStringified(message.content)] >>
        ELSE << >>)
       \o FunctionCallItems(message.tool_calls)
  ELSE << [type |-> "message", role |-> message.role,
           content |-> message.content] >>

\* the loop over payload.messages
RECURSIVE TranslateChatMessages(_)
TranslateChatMessages(messages) ==
  IF messages = << >> THEN << >>
  ELSE (IF Head(messages).role = "system" THEN << >>
        ELSE translateChatMessage(Head(messages)))
       \o TranslateChatMessages(Tail(messages))

IsSystemMessage(message) == message.role = "system"

\* payload.messages.find((m) => m.role === "system")?.content, when a string
Instructions(messages) ==
  IF SelectSeq(messages, IsSystemMessage) # << >>
     /\ Head(SelectSeq(messages, IsSystemMessage)).content.kind = "string"
  THEN Head(SelectSeq(messages, IsSystemMessage)).content.text
  ELSE "null"

\* the members of the payload that depend on the messages
translateOpenAIPayloadToResponsesPayload(payload) ==
  [model |-> payload.model,
   input |-> TranslateChatMessages(payload.messages),
   instructions |-> Instructions(payload.messages)]

InitChatRequest ==
  /\ streamState = createResponsesStreamState
  /\ written = << >>
  /\ pc = "call"
  /\ consumed = 0
  /\ lastChunk = NoChunk
  /\ before = createResponsesStreamState
  /\ lastEvents = << >>
  /\ scenario \in ChatPayloads(MaxMessages)
  /\ script = << >>
  /\ result = UNDEF

TranslatePayload == Returned(translateOpenAIPayloadToResponsesPayload(scenario))

NextChatRequest == TranslatePayload

SpecChatRequest == InitChatRequest /\ [][NextChatRequest]_vars

(***************************************************************************)
(* Claims about the ChatCompletions -> Responses request translation.      *)
(***************************************************************************)
\* the content is a non-empty string or a non-empty array; with emptyArray
\* an empty array counts as content too
HasContent(content, emptyArray) ==
  \/ content.kind = "string" /\ content.text # ""
  \/ content.kind = "parts" /\ (emptyArray \/ content.parts # << >>)

HasToolCalls(message) ==
  message.role = "assistant" /\ "tool_calls" \in DOMAIN message

\* the number of items the rule gives a message
ItemsFor(message, emptyArray) ==
  IF message.role = "system" THEN 0
  ELSE IF HasToolCalls(message)
  THEN (IF HasContent(message.content, emptyArray) THEN 1 ELSE 0)
       + Len(message.tool_calls)
  ELSE 1

RECURSIVE ItemsForAll(_, _)
ItemsForAll(messages, emptyArray) ==
  IF messages = << >> THEN 0
  ELSE ItemsFor(Head(messages), emptyArray)
       + ItemsForAll(Tail(messages), emptyArray)

\* the items of message k, when the items follow the messages in order
ItemsOfMessage(messages, input, k, emptyArray) ==
  SubSeq(input, ItemsForAll(SubSeq(messages, 1, k - 1), emptyArray) + 1,
         ItemsForAll(SubSeq(messages, 1, k), emptyArray))

\* the items of a message are the ones the rule gives
ItemsAsRuled(message, items, emptyArray) ==
  IF message.role = "system" THEN TRUE
  ELSE IF message.role = "tool"
  THEN /\ items[1].type = "function_call_output"
       /\ "tool_call_id" \in DOMAIN message
          => items[1].call_id = message.tool_call_id
  ELSE IF HasToolCalls(message)
  THEN /\ HasContent(message.content, emptyArray)
          => items[1].type = "message" /\ items[1].role = "assistant"
       /\ \A i \in DOMAIN message.tool_calls :
            /\ items[Len(items) - Len(message.tool_calls) + i].type
                 = "function_call"
            /\ items[Len(items) - Len(message.tool_calls) + i].call_id
                 = message.tool_calls[i].id
  ELSE items[1].type = "message" /\ items[1].role = message.role

\* the tool message k answers a tool call of an earlier assistant message
AnswersEarlierCall(messages, k) ==
  /\ messages[k].role = "tool"
  /\ "tool_call_id" \in DOMAIN messages[k]
  /\ \E j \in 1..(k - 1) :
       /\ HasToolCalls(messages[j])
       /\ \E i \in DOMAIN messages[j].tool_calls :
            messages[j].tool_calls[i].id = messages[k].tool_call_id

\* the output item at q has a function_call of the same call_id before it
HasEarlierCall(input, q) ==
  \E p \in 1..(q - 1) :
    input[p].type = "function_call" /\ input[p].call_id = input[q].call_id

\* the rule of the translation, for either reading of an empty array
PairingAndOrder(emptyArray) ==
  pc = "done"
  => /\ Len(result.input) = ItemsForAll(scenario.messages, emptyArray)
     /\ \A k \in DOMAIN scenario.messages :
          /\ ItemsAsRuled(scenario.messages[k],
                          ItemsOfMessage(scenario.messages, result.input, k,
                                         emptyArray),
                          emptyArray)
          /\ AnswersEarlierCall(scenario.messages, k)
             => HasEarlierCall(
                  result.input,
                  ItemsForAll(SubSeq(scenario.messages, 1, k), emptyArray))

\* C26: every assistant message with tool_calls yields an optional message
\* item (only when its content is non-empty) followed by one function_call
\* item per tool call with call_id the tool call id, every tool message one
\* function_call_output item with call_id its tool_call_id, the items of the
\* messages follow one another in message order, and the output of a tool
\* message that answers an earlier tool call has a function_call of its
\* call_id before it.
C26_ToolCallPairingAndOrder == PairingAndOrder(FALSE)

\* the same with the message item present exactly when the content is
\* truthy (a non-empty string, or an array, empty or not)
PairingAndOrderOfTruthyContent == PairingAndOrder(TRUE)

(***************************************************************************)
(* Two /v1/messages streams served at the same time.  Each request runs    *)
(* the stream callback of handleWithResponsesApi with the streamState it   *)
(* created; the callbacks interleave at every await: before a chunk is     *)
(* read and after each stream.writeSSE.  In this specification the         *)
(* variables streamState, written, pc, consumed, lastEvents and script     *)
(* hold one value per stream, lastEvents the translated events not yet     *)
(* written, and scenario the two upstream streams.                         *)
(***************************************************************************)
Streams == {1, 2}

ConcurrentEvents ==
  {[type |-> "response.output_text.delta", output_index |-> 0,
    content_index |-> 0, delta |-> "x"],
   [type |-> "response.output_item.added", output_index |-> 1, item_id |-> "",
    item |-> FunctionCallItem("c1", "i1", "n1", "j"), response |-> NoResponse],
   [type |-> "response.completed",
    response |-> Result("completed", UNDEF, 2, 1, NoNumber)]}

UpstreamStreams(maxEvents) ==
  SeqsUpTo({Chunk(e) : e \in ConcurrentEvents}, maxEvents)

\* what one iteration of the loop translates a chunk to
ChunkEvents(chunk, state) ==
  IF chunk.event = "ping" THEN Ctx(state, << PingEvent >>)
  ELSE IF ~chunk.hasData THEN Ctx(state, << >>)
  ELSE translateResponsesStreamEvent(chunk.raw, state)

\* where the callback goes once the events of a chunk are written
AfterWrites(state) == IF state.messageCompleted THEN "after" ELSE "loop"

InitConcurrent ==
  /\ streamState = [i \in Streams |-> createResponsesStreamState]
  /\ written = [i \in Streams |-> << >>]
  /\ pc = [i \in Streams |-> "loop"]
  /\ consumed = [i \in Streams |-> 0]
  /\ lastChunk = NoChunk
  /\ before = createResponsesStreamState
  /\ lastEvents = [i \in Streams |-> << >>]
  /\ scenario \in [Streams -> UpstreamStreams(MaxEvents)]
  /\ script = scenario
  /\ result = UNDEF

\* the loop of stream i, were the two callbacks to share the first stream's state
StreamRead_SharedState(i) ==
  /\ pc[i] = "loop"
  /\ script[i] # << >>
  /\ streamState' =
       [streamState EXCEPT
          ![1] = ChunkEvents(Head(script[i]), streamState[1]).state]
  /\ lastEvents' =
       [lastEvents EXCEPT
          ![i] = ChunkEvents(Head(script[i]), streamState[1]).events]
  /\ script' = [script EXCEPT ![i] = Tail(@)]
  /\ consumed' = [consumed EXCEPT ![i] = @ + 1]
  /\ pc' = [pc EXCEPT
              ![i] = IF lastEvents'[i] # << >> THEN "write"
                     ELSE AfterWrites(streamState'[1])]
  /\ UNCHANGED <<written, lastChunk, before, scenario, result>>

\* the loop of stream i reads a chunk and translates it with its own state
StreamRead(i) ==
  /\ pc[i] = "loop"
  /\ script[i] # << >>
  /\ streamState' =
       [streamState EXCEPT
          ![i] = ChunkEvents(Head(script[i]), streamState[i]).state]
  /\ lastEvents' =
       [lastEvents EXCEPT
          ![i] = ChunkEvents(Head(script[i]), streamState[i]).events]
  /\ script' = [script EXCEPT ![i] = Tail(@)]
  /\ consumed' = [consumed EXCEPT ![i] = @ + 1]
  /\ pc' = [pc EXCEPT
              ![i] = IF lastEvents'[i] # << >> THEN "write"
                     ELSE AfterWrites(streamState'[i])]
  /\ UNCHANGED <<written, lastChunk, before, scenario, result>>

\* await stream.writeSSE of the next translated event of stream i
StreamWrite(i) ==
  /\ pc[i] = "write"
  /\ written' = [written EXCEPT ![i] = Append(@, Head(lastEvents[i]))]
  /\ lastEvents' = [lastEvents EXCEPT ![i] = Tail(@)]
  /\ pc' = [pc EXCEPT
              ![i] = IF Tail(lastEvents[i]) # << >> THEN "write"
                     ELSE AfterWrites(streamState[i])]
  /\ UNCHANGED <<streamState, consumed, lastChunk, before, scenario, script,
                 result>>

\* the upstream of stream i is exhausted
StreamEnd(i) ==
  /\ pc[i] = "loop"
  /\ script[i] = << >>
  /\ pc' = [pc EXCEPT ![i] = "after"]
  /\ UNCHANGED <<streamState, written, consumed, lastChunk, before,
                 lastEvents, scenario, script, result>>

\* the statement after the loop of stream i
StreamAfterLoop(i) ==
  /\ pc[i] = "after"
  /\ written' =
       [written EXCEPT
          ![i] = IF ~streamState[i].messageCompleted
                 THEN Append(@, buildErrorEvent(
                                  "Responses stream ended without completion"))
                 ELSE @]
  /\ pc' = [pc EXCEPT ![i] = "done"]
  /\ UNCHANGED <<streamState, consumed, lastChunk, before, lastEvents,
                 scenario, script, result>>

NextConcurrent ==
  \E i \in Streams :
    StreamRead(i) \/ StreamWrite(i) \/ StreamEnd(i) \/ StreamAfterLoop(i)

SpecConcurrent == InitConcurrent /\ [][NextConcurrent]_vars

(***************************************************************************)
(* A stream run alone: the loop over its chunks from a fresh state.        *)
(***************************************************************************)
\* the state after the first chunks of a stream run alone
RECURSIVE AloneState(_, _)
AloneState(chunks, state) ==
  IF chunks = << >> THEN state
  ELSE AloneState(Tail(chunks), ChunkEvents(Head(chunks), state).state)

\* the events of the chunks of a stream run alone, chunk after chunk
RECURSIVE AloneEvents(_, _)
AloneEvents(chunks, state) ==
  IF chunks = << >> THEN << >>
  ELSE ChunkEvents(Head(chunks), state).events
       \o AloneEvents(Tail(chunks), ChunkEvents(Head(chunks), state).state)

\* the chunks the loop reads before it ends: up to the one that completes
ReadAlone(chunks) ==
  IF \E n \in DOMAIN chunks :
       AloneState(SubSeq(chunks, 1, n),
                  createResponsesStreamState).messageCompleted
  THEN SubSeq(chunks, 1,
              CHOOSE n \in DOMAIN chunks :
                /\ AloneState(SubSeq(chunks, 1, n),
                              createResponsesStreamState).messageCompleted
                /\ \A m \in 1..(n - 1) :
                     ~AloneState(SubSeq(chunks, 1, m),
                                 createResponsesStreamState).messageCompleted)
  ELSE chunks

\* all the client events of a stream run alone
WrittenAlone(chunks) ==
  AloneEvents(ReadAlone(chunks), createResponsesStreamState)
  \o (IF AloneState(ReadAlone(chunks),
                    createResponsesStreamState).messageCompleted
      THEN << >>
      ELSE << buildErrorEvent("Responses stream ended without completion") >>)

\* C27: concurrent streams are independent.  Whatever the interleaving of two
\* streams, the events written for each stream, followed by the translated
\* events it has still to write, are the events of the chunks it has read so
\* far when it is run alone, chunk after chunk; when the stream is done its
\* events are those of the whole stream run alone.
C27_ConcurrentStreamsIndependent ==
  \A i \in Streams :
    /\ written[i] \o lastEvents[i]
         = AloneEvents(SubSeq(scenario[i], 1, consumed[i]),
                       createResponsesStreamState)
           \o (IF pc[i] = "done" /\ ~streamState[i].messageCompleted
               THEN << buildErrorEvent(
                         "Responses stream ended without completion") >>
               ELSE << >>)
    /\ streamState[i]
         = AloneState(SubSeq(scenario[i], 1, consumed[i]),
                      createResponsesStreamState)
    /\ pc[i] = "done" => written[i] = WrittenAlone(scenario[i])

\* both streams are done; the first opened a text block and the second a
\* tool_use block, each at index 0
C27_Witness ==
  /\ \A i \in Streams : pc[i] = "done"
  /\ \E k \in DOMAIN written[1] :
       /\ written[1][k].type = "content_block_start"
       /\ written[1][k].index = 0
       /\ written[1][k].block_type = "text"
  /\ \E k \in DOMAIN written[2] :
       /\ written[2][k].type = "content_block_start"
       /\ written[2][k].index = 0
       /\ written[2][k].block_type = "tool_use"

(***************************************************************************)
(* Claims about the *.done events of a stream (specification Spec).        *)
(***************************************************************************)
\* the loop has just handled an upstream event of this type
JustHandled(type) ==
  /\ pc \in {"loop", "after"}
  /\ lastChunk.hasData
  /\ lastChunk.raw.type = type

\* the events written before the last iteration
PriorWritten == SubSeq(written, 1, Len(written) - Len(lastEvents))

\* the positions of the deltas of a type for a block
DeltasFor(events, deltaType, index) ==
  {i \in DOMAIN events :
     /\ IsDelta(events[i])
     /\ events[i].index = index
     /\ events[i].delta_type = deltaType}

\* the block of the text event the loop has just handled
TextBlockOfLast ==
  streamState.blockIndexByKey[
    getBlockKey(toNumber(lastChunk.raw.output_index),
                toNumber(lastChunk.raw.content_index))]

\* C28: response.output_text.done emits a synthesised text_delta if and only
\* if no text_delta has been emitted yet for that block and text is
\* non-empty, and then emits content_block_stop; so, a second done event for
\* the same key included, the text of a block reaches the client at most
\* once.
C28_TextDoneSynthesisesOnce ==
  JustHandled("response.output_text.done")
  => /\ (DeltasFor(lastEvents, "text_delta", TextBlockOfLast) # {})
        <=> (lastChunk.raw.text # ""
             /\ DeltasFor(PriorWritten, "text_delta", TextBlockOfLast) = {})
     /\ lastEvents[Len(lastEvents)]
          = [type |-> "content_block_stop", index |-> TextBlockOfLast]


(***************************************************************************)
(* response.function_call_arguments.done.                                  *)
(***************************************************************************)
JustHandledAny(types) ==
  /\ pc \in {"loop", "after"}
  /\ lastChunk.hasData
  /\ lastChunk.raw.type \in types

\* the output index the handled function-call event resolved to
ResolvedOfLast == resolveFunctionCallOutputIndex(before, lastChunk.raw)

\* the block of the handled function-call event: the block registered for
\* its output index, or the next free index when none is registered
FunctionCallBlockOfLast ==
  IF ResolvedOfLast \in DOMAIN before.functionCallStateByOutputIndex
  THEN before.functionCallStateByOutputIndex[ResolvedOfLast].blockIndex
  ELSE before.nextContentBlockIndex

\* C29: response.function_call_arguments.done emits a synthesised
\* input_json_delta exactly when no input_json_delta was emitted for the
\* block before (neither from the initial arguments of output_item.added nor
\* from an arguments delta) and `arguments` is non-empty, so arguments that
\* arrived whole in output_item.added are emitted once; after done the block
\* is closed and functionCallStateByOutputIndex has no entry for the output
\* index.
C29_ArgumentsDoneSynthesisesOnce ==
  (JustHandled("response.function_call_arguments.done")
   /\ ResolvedOfLast # NoNumber)
  => /\ (DeltasFor(lastEvents, "input_json_delta", FunctionCallBlockOfLast) # {})
        <=> (lastChunk.raw.arguments # ""
             /\ DeltasFor(PriorWritten, "input_json_delta",
                          FunctionCallBlockOfLast) = {})
     /\ Cardinality(DeltasFor(lastEvents, "input_json_delta",
                              FunctionCallBlockOfLast)) <= 1
     /\ lastEvents[Len(lastEvents)]
          = [type |-> "content_block_stop", index |-> FunctionCallBlockOfLast]
     /\ ~IsOpen(streamState, FunctionCallBlockOfLast)
     /\ ResolvedOfLast \notin DOMAIN streamState.functionCallStateByOutputIndex

\* all arguments arrived in output_item.added, done repeats them: one delta
C29_Witness ==
  /\ JustHandled("response.function_call_arguments.done")
  /\ ResolvedOfLast \in DOMAIN before.functionCallStateByOutputIndex
  /\ lastChunk.raw.arguments = "j"
  /\ Cardinality(DeltasFor(written, "input_json_delta",
                           FunctionCallBlockOfLast)) = 1
  /\ DeltasFor(lastEvents, "input_json_delta", FunctionCallBlockOfLast) = {}
  /\ ~IsOpen(streamState, FunctionCallBlockOfLast)


(***************************************************************************)
(* A scripted upstream stream of two function calls whose argument events  *)
(* carry item_id only.  Item i1 (call c1) and item i2 (call c2) are        *)
(* announced by response.output_item.added at two different output         *)
(* indexes; the delta and done events name i1, i2 or the unknown item i9   *)
(* and have no output_index.  The steps come in any order, each            *)
(* announcement at most once, and response.completed ends the stream.      *)
(***************************************************************************)
CallItems == {"i1", "i2"}

CallIdOf(itemId) == IF itemId = "i1" THEN "c1" ELSE "c2"

ItemSteps ==
  {[op |-> "added", item |-> i] : i \in CallItems}
  \cup {[op |-> o, item |-> i] :
          o \in {"delta", "done"}, i \in CallItems \cup {"i9"}}

DistinctIndexes ==
  {pair \in OutputIndexes \X OutputIndexes : pair[1] # pair[2]}

ItemIdScenarios(maxSteps) ==
  {[steps |-> st, first |-> pair[1], second |-> pair[2]] :
     st \in {q \in UNION {[1..k -> ItemSteps] : k \in 0..maxSteps} :
               \A i, j \in DOMAIN q :
                  (i # j /\ q[i].op = "added") => q[i] # q[j]},
     pair \in DistinctIndexes}

ItemStepChunk(sc, step) ==
  IF step.op = "added"
  THEN Chunk([type |-> "response.output_item.added",
              output_index |-> IF step.item = "i1" THEN sc.first ELSE sc.second,
              item_id |-> "",
              item |-> FunctionCallItem(CallIdOf(step.item), step.item, "n1", ""),
              response |-> NoResponse])
  ELSE IF step.op = "delta"
  THEN Chunk([type |-> "response.function_call_arguments.delta",
              output_index |-> NoNumber, item_id |-> step.item, delta |-> "j"])
  ELSE Chunk([type |-> "response.function_call_arguments.done",
              output_index |-> NoNumber, item_id |-> step.item,
              arguments |-> "j"])

ItemIdScript(sc) ==
  [k \in 1..Len(sc.steps) |-> ItemStepChunk(sc, sc.steps[k])]
  \o << Chunk([type |-> "response.completed",
               response |-> Result("completed", UNDEF, 2, 1, NoNumber)]) >>

InitItemId ==
  /\ streamState = createResponsesStreamState
  /\ written = << >>
  /\ pc = "loop"
  /\ consumed = 0
  /\ lastChunk = NoChunk
  /\ before = createResponsesStreamState
  /\ lastEvents = << >>
  /\ scenario \in ItemIdScenarios(MaxSteps)
  /\ script = ItemIdScript(scenario)
  /\ result = UNDEF

NextItemId == Deliver \/ AfterLoop

SpecItemId == InitItemId /\ [][NextItemId]_vars

\* the steps read before the one just handled
EarlierSteps == SubSeq(scenario.steps, 1, consumed - 1)

\* an earlier output_item.added announced the item and no done has named it since
Registered(itemId) ==
  \E j \in DOMAIN EarlierSteps :
     /\ EarlierSteps[j] = [op |-> "added", item |-> itemId]
     /\ \A k \in (j + 1)..Len(EarlierSteps) :
           EarlierSteps[k] # [op |-> "done", item |-> itemId]

\* the content_block_start events written for the announcement of the item
StartsOf(events, itemId) ==
  {i \in DOMAIN events :
     /\ IsStart(events[i])
     /\ events[i].block_type = "tool_use"
     /\ events[i].id = CallIdOf(itemId)}

BlockEventsOf(events) == {i \in DOMAIN events : IsBlockEvent(events[i])}

AppliedTo(blockIndex) ==
  /\ \A i \in BlockEventsOf(lastEvents) :
        ~IsStart(lastEvents[i]) /\ lastEvents[i].index = blockIndex
  /\ IF lastChunk.raw.type = "response.function_call_arguments.delta"
     THEN lastEvents = << Delta(blockIndex, "input_json_delta", lastChunk.raw.delta) >>
     ELSE lastEvents[Len(lastEvents)]
            = [type |-> "content_block_stop", index |-> blockIndex]

SummaryDeltas == {"r", "s"}

ReasoningScenarios(maxDeltas) ==
  {[thinking |-> d, partText |-> t, signature |-> e,
    first |-> pair[1], second |-> pair[2]] :
     d \in UNION {[1..k -> SummaryDeltas] : k \in 0..maxDeltas},
     t \in {"", "whole"}, e \in {UNDEF, "", "sig"}, pair \in DistinctIndexes}

ReasoningScript(sc) ==
  << Chunk([type |-> "response.created",
            response |-> Result("in_progress", UNDEF, NoNumber, NoNumber,
                                NoNumber)]) >>
  \o [k \in 1..Len(sc.thinking) |->
        Chunk([type |-> "response.reasoning_summary_text.delta",
               output_index |-> sc.first, delta |-> sc.thinking[k]])]
  \o << Chunk([type |-> "response.reasoning_summary_part.done",
               output_index |-> sc.first,
               part_text |-> IF sc.partText = "" THEN ""
                             ELSE IF sc.thinking = << >> THEN "whole"
                             ELSE Concat(sc.thinking)]),
        Chunk([type |-> "response.output_item.done", output_index |-> sc.first,
               item |-> [type |-> "reasoning",
                         encrypted_content |-> sc.signature]]),
        Chunk([type |-> "response.output_text.delta", output_index |-> sc.second,
               content_index |-> 0, delta |-> "x"]),
        Chunk([type |-> "response.output_text.done", output_index |-> sc.second,
               content_index |-> 0, text |-> "x"]),
        Chunk([type |-> "response.completed",
               response |-> Result("completed", UNDEF, 2, 1, NoNumber)]) >>

InitReasoning ==
  /\ streamState = createResponsesStreamState
  /\ written = << >>
  /\ pc = "loop"
  /\ consumed = 0
  /\ lastChunk = NoChunk
  /\ before = createResponsesStreamState
  /\ lastEvents = << >>
  /\ scenario \in ReasoningScenarios(MaxDeltas)
  /\ script = ReasoningScript(scenario)
  /\ result = UNDEF

NextReasoning == Deliver \/ AfterLoop

SpecReasoning == InitReasoning /\ [][NextReasoning]_vars

\* the positions in the client's events of the events of one kind
StartsOfType(blockType) ==
  {i \in DOMAIN written : IsStart(written[i]) /\ written[i].block_type = blockType}

\* the thinking deltas the client has to see, in upstream order
ExpectedThinking ==
  IF scenario.thinking # << >> THEN scenario.thinking
  ELSE IF scenario.partText # "" THEN << "whole" >>
  ELSE << >>

\* the events of one block, in the order written
EventsOfBlock(index) ==
  SelectSeq(written, LAMBDA e : IsBlockEvent(e) /\ e.index = index)

\* the thinking block as the client has to see it once the item is done
ExpectedThinkingBlock(index) ==
  << [type |-> "content_block_start", index |-> index,
      block_type |-> "thinking", id |-> UNDEF, name |-> UNDEF] >>
  \o [k \in 1..Len(ExpectedThinking) |->
        Delta(index, "thinking_delta", ExpectedThinking[k])]
  \o (IF scenario.signature \in {UNDEF, ""} THEN << >>
      ELSE << Delta(index, "signature_delta", scenario.signature) >>)
  \o << [type |-> "content_block_stop", index |-> index] >>

IsPrefix(short, long) ==
  /\ Len(short) <= Len(long)
  /\ SubSeq(long, 1, Len(short)) = short

\* the reasoning item of the scripted stream is done
ReasoningItemDone == consumed >= Len(scenario.thinking) + 3

ReasoningThenMessage ==
  /\ Cardinality(StartsOfType("thinking")) <= 1
  /\ \A i \in StartsOfType("thinking") :
        /\ IsPrefix(EventsOfBlock(written[i].index),
                    ExpectedThinkingBlock(written[i].index))
        /\ ReasoningItemDone
           => EventsOfBlock(written[i].index)
                = ExpectedThinkingBlock(written[i].index)
        /\ \A j \in DOMAIN written :
              (IsBlockEvent(written[j]) /\ written[j].index = written[i].index)
              => \A k \in StartsOfType("text") : j < k
  /\ ReasoningItemDone => StartsOfType("thinking") # {}
  /\ StartsOfType("text") # {} => ReasoningItemDone

\* C31: for a reasoning item followed by a message item the thinking block
\* receives its thinking_delta events in upstream order, then the
\* signature_delta (when output_item.done carries a non-empty
\* encrypted_content) as its last delta, then content_block_stop, all before
\* the content_block_start of the text block; and output_item.done for a
\* reasoning item leaves the thinking block of its output index closed.
C31_ThinkingBlockBeforeText ==
  /\ "thinking" \in DOMAIN scenario => ReasoningThenMessage
  /\ (JustHandled("response.output_item.done")
      /\ lastChunk.raw.item.type = "reasoning")
     => /\ getBlockKey(toNumber(lastChunk.raw.output_index), 0)
             \in DOMAIN streamState.blockIndexByKey
        /\ ~IsOpen(streamState,
                   streamState.blockIndexByKey[
                     getBlockKey(toNumber(lastChunk.raw.output_index), 0)])

\* two different thinking deltas, a signature, and the text block started
C31_Witness ==
  /\ "thinking" \in DOMAIN scenario
  /\ Len(scenario.thinking) = 2
  /\ scenario.thinking[1] # scenario.thinking[2]
  /\ scenario.signature = "sig"
  /\ StartsOfType("text") # {}
  /\ pc = "done"


(***************************************************************************)
(* The warmup rewrite of /v1/messages.                                     *)
(***************************************************************************)
\* the request has an anthropic-beta header and no tools (absent or empty)
IsWarmup(request) ==
  request.anthropicBeta /\ request.tools \in {NoNumber, 0}

\* the one upstream call is made as for a request for the given model
HandledAsRequestFor(modelId) ==
  /\ Cardinality(UpstreamCalls) = 1
  /\ \A i \in UpstreamCalls :
        IF InCatalogWithResponses(scenario.models, modelId)
        THEN written[i] = [effect |-> "createResponses", model |-> modelId]
        ELSE written[i] = [effect |-> "createChatCompletions",
                           model |-> translateModelName(modelId)]

\* C32: in the /v1/messages handler a request with an anthropic-beta header
\* and no tools (absent or empty list) has its model replaced by the
\* configured small model before the routing decision and before the
\* upstream payload is built, so the choice of upstream and the model sent
\* upstream are those of the small model; every other request keeps the
\* requested model.
C32_WarmupUsesSmallModel ==
  (pc = "done" /\ scenario.request.route = "/v1/messages")
  => IF IsWarmup(scenario.request)
     THEN HandledAsRequestFor(scenario.request.smallModel)
     ELSE HandledAsRequestFor(scenario.request.model)

\* a warmup request for a chat-only model is sent to the Responses upstream
\* with the small model
C32_Witness ==
  /\ pc = "done"
  /\ scenario.request.route = "/v1/messages"
  /\ scenario.request.anthropicBeta
  /\ scenario.request.tools = NoNumber
  /\ scenario.request.model # scenario.request.smallModel
  /\ ~InCatalogWithResponses(scenario.models, scenario.request.model)
  /\ written[Len(written)] = [effect |-> "createResponses",
                              model |-> scenario.request.smallModel]


(***************************************************************************)
(* The sub-type of a delta and the type of its block.                      *)
(***************************************************************************)
\* the type a block must have been started with to take a delta of the sub-type
BlockTypeOf(deltaType) ==
  IF deltaType = "text_delta" THEN "text"
  ELSE IF deltaType = "input_json_delta" THEN "tool_use"
  ELSE "thinking"

\* the position of the content_block_start that opened the block of written[i]
OpeningStart(i) ==
  {j \in 1..(i - 1) :
     /\ IsStart(written[j])
     /\ written[j].index = written[i].index
     /\ \A k \in (j + 1)..(i - 1) :
           ~(IsStart(written[k]) /\ written[k].index = written[i].index)}

\* C33: in the Responses-to-Anthropic stream translator every
\* content_block_delta has the sub-type of the block open at its index:
\* text_delta in a block started as text, thinking_delta and signature_delta
\* in a block started as thinking, input_json_delta in a block started as
\* tool_use, for every sequence of upstream events.
C33_DeltaMatchesBlockType ==
  \A i \in DOMAIN written :
     IsDelta(written[i])
     => \A j \in OpeningStart(i) :
           written[j].block_type = BlockTypeOf(written[i].delta_type)


(***************************************************************************)
(* A reply with a tool call.  The upstream stream announces a function     *)
(* call (or none), finishes its arguments and ends with response.completed *)
(* or response.incomplete; the final response is a ResponsesResult of any  *)
(* status and incomplete_details.reason whose output holds the function    *)
(* call (or nothing).  The same final response is then translated as the   *)
(* non-streaming reply.                                                    *)
(***************************************************************************)
CalledFunction ==
  [type |-> "function_call", call_id |-> "c1", name |-> "n1",
   arguments |-> JSONstringify(EmptyObject), status |-> "completed"]

ToolReplyScenarios(maxTokens) ==
  {[type |-> t,
    response |-> [Result(s, r, i, 1, NoNumber)
                    EXCEPT !.output = IF c THEN << CalledFunction >> ELSE << >>],
    announced |-> a] :
     t \in {"response.completed", "response.incomplete"},
     s \in Statuses, r \in IncompleteReasons, i \in 0..maxTokens,
     c \in BOOLEAN, a \in BOOLEAN}

ToolReplyScript(sc) ==
  (IF sc.announced
   THEN << Chunk([type |-> "response.output_item.added", output_index |-> 0,
                  item_id |-> "",
                  item |-> FunctionCallItem("c1", "i1", "n1", "j"),
                  response |-> NoResponse]),
           Chunk([type |-> "response.function_call_arguments.done",
                  output_index |-> 0, item_id |-> "i1", arguments |-> "j"]) >>
   ELSE << >>)
  \o << Chunk([type |-> sc.type, response |-> sc.response]) >>

InitToolReply ==
  /\ streamState = createResponsesStreamState
  /\ written = << >>
  /\ pc = "loop"
  /\ consumed = 0
  /\ lastChunk = NoChunk
  /\ before = createResponsesStreamState
  /\ lastEvents = << >>
  /\ scenario \in ToolReplyScenarios(MaxTokens)
  /\ script = ToolReplyScript(scenario)
  /\ result = UNDEF

NextToolReply == Deliver \/ AfterLoop \/ TranslateFinalResponse

SpecToolReply == InitToolReply /\ [][NextToolReply]_vars

\* the non-streaming reply has a tool_use block
ReplyHasToolUse ==
  /\ pc = "translated"
  /\ \E i \in DOMAIN result.content : result.content[i].type = "tool_use"

\* the stream has started a tool_use block
StreamHasToolUse == StartsOfType("tool_use") # {}

(***************************************************************************)
(* C34 as stated: a reply that contains a tool_use block has stop_reason   *)
(* tool_use, in the response body and in the final message_delta.          *)
(***************************************************************************)
C34_ToolUseStopReason ==
  /\ ReplyHasToolUse => result.stop_reason = "tool_use"
  /\ StreamHasToolUse
     => \A i \in DOMAIN MessageDeltas : MessageDeltas[i].stop_reason = "tool_use"

(***************************************************************************)
(* C34 amended: a reply that contains a tool_use block has the stop_reason *)
(* that the status and incomplete_details.reason of the upstream response  *)
(* give, in the response body and in the final message_delta: end_turn for *)
(* status completed, tool_use only for status incomplete with reason       *)
(* tool_use.                                                               *)
(***************************************************************************)
C34_ToolUseKeepsStatusStopReason ==
  /\ ReplyHasToolUse
     => /\ result.stop_reason = ExpectedStopReason(scenario.response)
        /\ scenario.response.status = "completed"
           => result.stop_reason = "end_turn"
  /\ StreamHasToolUse
     => \A i \in DOMAIN MessageDeltas :
           MessageDeltas[i].stop_reason = ExpectedStopReason(scenario.response)

\* a completed response with a function call, streamed and translated
C34_Witness ==
  /\ ReplyHasToolUse
  /\ StreamHasToolUse
  /\ scenario.response.status = "completed"
  /\ result.stop_reason = "end_turn"
  /\ Len(MessageDeltas) = 1
  /\ MessageDeltas[1].stop_reason = "end_turn"


(***************************************************************************)
(* The end of the client's stream.  The loop hands chunk.data to           *)
(* JSON.parse before translating it; on data that is not JSON text         *)
(* JSON.parse throws, nothing in the stream callback catches it, and the   *)
(* callback is left with no further write (pc "aborted").                  *)
(***************************************************************************)
\* one iteration of the loop on a chunk whose data JSON.parse rejects
MalformedData ==
  /\ pc = "loop"
  /\ consumed < MaxEvents
  /\ lastChunk' = MalformedChunk
  /\ before' = streamState
  /\ consumed' = consumed + 1
  /\ lastEvents' = << >>
  /\ pc' = "aborted"
  /\ UNCHANGED <<streamState, written, scenario, script, result>>

NextAnyData == Next \/ MalformedData

SpecAnyData == Init /\ [][NextAnyData]_vars

\* the stream callback has returned or has been left by an exception
StreamOver == pc \in {"done", "aborted"}

TerminalPositions ==
  {i \in DOMAIN written : written[i].type \in {"message_stop", "error"}}

\* C35: every Anthropic-client stream translated from a finite Responses
\* upstream ends with exactly one terminal event, message_stop or error and
\* never both, and that event is the last event written to the client.
C35_OneTerminalEventLast ==
  /\ Cardinality(TerminalPositions) <= 1
  /\ \A i \in TerminalPositions : i = Len(written)
  /\ StreamOver => Cardinality(TerminalPositions) = 1


(***************************************************************************)
(* The bookkeeping of the per-stream state.                                *)
(***************************************************************************)
KeyedBlocks == DOMAIN streamState.blockIndexByKey

FunctionCalls == DOMAIN streamState.functionCallStateByOutputIndex

\* C36: at every point of a Responses-to-Anthropic stream the indices stored
\* in blockIndexByKey and the blockIndex values stored in
\* functionCallStateByOutputIndex are pairwise distinct, every entry of
\* functionCallStateByOutputIndex refers to a block that is in openBlocks,
\* and blockHasDelta is a subset of openBlocks.
C36_BlockBookkeeping ==
  /\ \A k, l \in KeyedBlocks :
        k # l => streamState.blockIndexByKey[k] # streamState.blockIndexByKey[l]
  /\ \A o, p \in FunctionCalls :
        o # p => streamState.functionCallStateByOutputIndex[o].blockIndex
                   # streamState.functionCallStateByOutputIndex[p].blockIndex
  /\ \A k \in KeyedBlocks, o \in FunctionCalls :
        streamState.blockIndexByKey[k]
          # streamState.functionCallStateByOutputIndex[o].blockIndex
  /\ \A o \in FunctionCalls :
        IsOpen(streamState,
               streamState.functionCallStateByOutputIndex[o].blockIndex)
  /\ streamState.blockHasDelta \subseteq Range(streamState.openBlocks)

\* a keyed block and a function call side by side, one of them with a delta
C36_Witness ==
  /\ KeyedBlocks # {}
  /\ FunctionCalls # {}
  /\ streamState.blockHasDelta # {}
  /\ Len(streamState.openBlocks) = 2


(***************************************************************************)
(* Starting a block index again.                                           *)
(***************************************************************************)
StartPositions == {i \in DOMAIN written : IsStart(written[i])}

\* the block of written[i] has been stopped between positions i and j
StoppedBetween(i, j) ==
  \E k \in (i + 1)..(j - 1) :
     IsStop(written[k]) /\ written[k].index = written[i].index

(***************************************************************************)
(* C37 as stated: no block index receives content_block_start more than    *)
(* once, so the indices of successive content_block_start events are       *)
(* strictly increasing.                                                    *)
(***************************************************************************)
C37_StartOncePerIndex ==
  \A i, j \in StartPositions : i < j => written[i].index < written[j].index

\* what the translator keeps instead: an index is started again only after its
\* content_block_stop and only for a text or thinking block, and the indices
\* of first starts are strictly increasing
RestartOnlyAfterStop ==
  /\ \A i, j \in StartPositions :
        (i < j /\ written[i].index = written[j].index)
        => /\ StoppedBetween(i, j)
           /\ written[j].block_type # "tool_use"
           /\ written[i].block_type # "tool_use"
           /\ \E k \in KeyedBlocks :
                 streamState.blockIndexByKey[k] = written[j].index
  /\ \A i, j \in StartPositions :
        (i < j /\ NewBlockAt(i) /\ NewBlockAt(j))
        => written[i].index < written[j].index

(***************************************************************************)
(* The ChatCompletions client on a Responses upstream: one response,       *)
(* delivered as a stream and as a result                                   *)
(* (src/routes/chat-completions/responses-translation.ts 253-353).         *)
(* `translateResponsesResultToOpenAIResponse` reads the output items: the  *)
(* output_text blocks of message items, the function_call items and the    *)
(* summaries of reasoning items.                                           *)
(***************************************************************************)
RECURSIVE OutputTextOfBlocks(_)
OutputTextOfBlocks(blocks) ==
  IF blocks = << >> THEN ""
  ELSE (IF Head(blocks).type = "output_text" THEN Head(blocks).text ELSE "")
       \o OutputTextOfBlocks(Tail(blocks))

RECURSIVE ContentOfOutput(_)
ContentOfOutput(output) ==
  IF output = << >> THEN ""
  ELSE (IF Head(output).type = "message" /\ Head(output).content # UNDEF
        THEN OutputTextOfBlocks(Head(output).content) ELSE "")
       \o ContentOfOutput(Tail(output))

RECURSIVE ToolCallsOfOutput(_)
ToolCallsOfOutput(output) ==
  IF output = << >> THEN << >>
  ELSE (IF Head(output).type = "function_call"
        THEN << [id |-> Head(output).call_id, type |-> "function",
                 name |-> Head(output).name,
                 arguments |-> Head(output).arguments] >>
        ELSE << >>)
       \o ToolCallsOfOutput(Tail(output))

RECURSIVE SummaryTextOf(_)
SummaryTextOf(summary) ==
  IF summary = << >> THEN ""
  ELSE Head(summary).text \o SummaryTextOf(Tail(summary))

RECURSIVE ReasoningTextOfOutput(_)
ReasoningTextOfOutput(output) ==
  IF output = << >> THEN ""
  ELSE (IF Head(output).type = "reasoning" /\ Head(output).summary # UNDEF
        THEN SummaryTextOf(Head(output).summary) ELSE "")
       \o ReasoningTextOfOutput(Tail(output))

\* the ChatCompletionResponse with its one choice
OpenAIResponse(response, content, toolCalls, reasoningText, finishReason) ==
  [id |-> response.id, object |-> "chat.completion", model |-> response.model,
   content |-> IF content = "" THEN "null" ELSE content,
   tool_calls |-> IF Len(toolCalls) > 0 THEN toolCalls ELSE UNDEF,
   reasoning_text |-> IF reasoningText = "" THEN UNDEF ELSE reasoningText,
   finish_reason |-> finishReason]

translateResponsesResultToOpenAIResponse(response) ==
  OpenAIResponse(response, ContentOfOutput(response.output),
                 ToolCallsOfOutput(response.output),
                 ReasoningTextOfOutput(response.output),
                 IF Len(ToolCallsOfOutput(response.output)) > 0
                 THEN "tool_calls" ELSE "stop")

\* a response: an optional text and up to two function calls, each with its
\* arguments in pieces
ArgumentPieces == {"a", "b"}

MaxCalls == 2

PlannedCallIds == << "c1", "c2", "c3" >>

PlannedItemIds == << "i1", "i2", "i3" >>

PlannedCall(k, pieces) ==
  [call_id |-> PlannedCallIds[k], id |-> PlannedItemIds[k], name |-> "n1",
   pieces |-> pieces]

ChatReplyScenarios(maxDeltas) ==
  {[text |-> t,
    calls |-> [k \in 1..n |-> PlannedCall(k, ps[k])]] :
     t \in {"", "x"},
     n \in 0..MaxCalls,
     ps \in [1..MaxCalls -> SeqsUpTo(ArgumentPieces, maxDeltas)]}

RECURSIVE CallItemsOf(_)
CallItemsOf(calls) ==
  IF calls = << >> THEN << >>
  ELSE << [type |-> "function_call", call_id |-> Head(calls).call_id,
           id |-> Head(calls).id, name |-> Head(calls).name,
           arguments |-> Concat(Head(calls).pieces),
           status |-> "completed"] >>
       \o CallItemsOf(Tail(calls))

\* the response object of the scenario, as response.completed carries it and
\* as the non-streaming request returns it
ChatReplyResponse(sc) ==
  [Result("completed", UNDEF, 1, 1, NoNumber)
     EXCEPT !.output =
       (IF sc.text = "" THEN << >>
        ELSE << [type |-> "message", role |-> "assistant",
                 content |-> << createOutPutTextContent(sc.text) >>] >>)
       \o CallItemsOf(sc.calls)]

RECURSIVE PieceChunks(_, _, _)
PieceChunks(pieces, outputIndex, itemId) ==
  IF pieces = << >> THEN << >>
  ELSE << Chunk([type |-> "response.function_call_arguments.delta",
                 output_index |-> outputIndex, item_id |-> itemId,
                 delta |-> Head(pieces)]) >>
       \o PieceChunks(Tail(pieces), outputIndex, itemId)

RECURSIVE CallChunks(_, _)
CallChunks(calls, outputIndex) ==
  IF calls = << >> THEN << >>
  ELSE << Chunk([type |-> "response.output_item.added",
                 output_index |-> outputIndex, item_id |-> "",
                 item |-> FunctionCallItem(Head(calls).call_id, Head(calls).id,
                                           Head(calls).name, ""),
                 response |-> NoResponse]) >>
       \o PieceChunks(Head(calls).pieces, outputIndex, Head(calls).id)
       \o CallChunks(Tail(calls), outputIndex + 1)

ChatReplyScript(sc) ==
  (IF sc.text = "" THEN << >>
   ELSE << Chunk([type |-> "response.output_text.delta", output_index |-> 0,
                  content_index |-> 0, delta |-> sc.text]) >>)
  \o CallChunks(sc.calls, IF sc.text = "" THEN 0 ELSE 1)
  \o << Chunk([type |-> "response.completed",
               response |-> ChatReplyResponse(sc)]) >>

InitChatReply ==
  /\ streamState = createResponsesStreamState
  /\ written = << >>
  /\ pc = "loop"
  /\ consumed = 0
  /\ lastChunk = NoChunk
  /\ before = createResponsesStreamState
  /\ lastEvents = << >>
  /\ scenario \in ChatReplyScenarios(MaxDeltas)
  /\ script = ChatReplyScript(scenario)
  /\ result = UNDEF

\* the for-await loop reads the next chunk of the scripted stream
ChatDeliver ==
  /\ pc = "loop"
  /\ script # << >>
  /\ lastChunk' = Head(script)
  /\ consumed' = consumed + 1
  /\ WriteChunk(processResponsesApiChunk(Head(script).raw, ChatModel))
  /\ script' = Tail(script)
  /\ UNCHANGED <<streamState, before, pc, scenario, result>>

\* the non-streaming branch, given the response the stream ended with
ChatTranslateResult ==
  /\ pc = "done"
  /\ result' = translateResponsesResultToOpenAIResponse(ChatReplyResponse(scenario))
  /\ pc' = "translated"
  /\ UNCHANGED <<streamState, written, consumed, lastChunk, before,
                 lastEvents, scenario, script>>

NextChatReply ==
  \/ ChatDeliver
  \/ EndOfStream
  \/ ChatAfterLoop
  \/ ChatTranslateResult

SpecChatReply == InitChatReply /\ [][NextChatReply]_vars

\* the chunks written so far, without the [DONE] sentinel
ChunksWritten ==
  SelectSeq(written, LAMBDA m : m # DoneMessage)

IsFinishChunk(m) == m # DoneMessage /\ m.chunk.finish_reason # "null"

FinishChunks == SelectSeq(written, IsFinishChunk)

HasFunctionCall == Len(scenario.calls) > 0

(***************************************************************************)
(* C38 as stated: a response with at least one function call is reported   *)
(* with finish_reason tool_calls both by the finish chunk of the stream    *)
(* and by the non-streaming translation.                                   *)
(***************************************************************************)
C38_SameFinishReason ==
  (pc = "translated" /\ HasFunctionCall)
  => /\ result.finish_reason = "tool_calls"
     /\ Len(FinishChunks) = 1
     /\ FinishChunks[1].chunk.finish_reason = result.finish_reason

\* what the two paths do: the result translator reports tool_calls exactly
\* when the response has a function call, the stream's one finish chunk
\* reports stop for every response
FinishReasonPerPath ==
  /\ pc = "translated"
     => /\ result.finish_reason
             = (IF HasFunctionCall THEN "tool_calls" ELSE "stop")
        /\ HasFunctionCall
           => /\ result.tool_calls # UNDEF
              /\ Len(result.tool_calls) = Len(scenario.calls)
  /\ pc \in {"done", "translated"}
     => /\ Len(FinishChunks) = 1
        /\ FinishChunks[1].chunk.finish_reason = "stop"
        /\ written[Len(written) - 1] = FinishChunks[1]
  /\ (pc = "loop" /\ lastChunk.event = "response.completed")
     => (lastEvents # << >> /\ lastEvents[1].chunk.finish_reason = "stop")

(***************************************************************************)
(* The tool_calls entries of the stream.  Every event of a scripted        *)
(* response is translated to one chunk, so the chunk at position i comes   *)
(* from the i-th upstream event.                                           *)
(***************************************************************************)
ChunkPositions == {i \in DOMAIN written : written[i] # DoneMessage}

OriginOf(i) == ChatReplyScript(scenario)[i].raw

\* the chunks that announce a function call
ToolCallChunkPositions ==
  {i \in ChunkPositions : "tool_call_id" \in DOMAIN written[i].chunk.delta}

\* the chunks that carry a piece of arguments
ArgumentChunkPositions ==
  {i \in ChunkPositions :
     /\ "tool_call_arguments" \in DOMAIN written[i].chunk.delta
     /\ "tool_call_id" \notin DOMAIN written[i].chunk.delta}

ToolCallIndexAt(i) == written[i].chunk.delta.tool_call_index

\* the arguments a client accumulates under a tool_calls index
RECURSIVE AccumulatedUpTo(_, _)
AccumulatedUpTo(index, n) ==
  IF n = 0 THEN ""
  ELSE AccumulatedUpTo(index, n - 1)
       \o (IF n \in ToolCallChunkPositions \cup ArgumentChunkPositions
              /\ ToolCallIndexAt(n) = index
           THEN written[n].chunk.delta.tool_call_arguments ELSE "")

(***************************************************************************)
(* C39: in a stream with two or more function calls, the tool_call chunks  *)
(* of different function calls carry different tool_calls index values,    *)
(* every arguments chunk carries the index of the tool_call chunk of the   *)
(* function call it belongs to, and the arguments accumulated under the    *)
(* index of a call are the arguments of that call.                         *)
(***************************************************************************)
C39_DistinctToolCallIndexes ==
  /\ \A i \in ChunkPositions : written[i].chunk =
       RenameReasoning(translateResponsesStreamEventToOpenAIChunk(OriginOf(i),
                                                                  ChatModel))
  /\ \A i, j \in ToolCallChunkPositions :
       written[i].chunk.delta.tool_call_id # written[j].chunk.delta.tool_call_id
       => ToolCallIndexAt(i) # ToolCallIndexAt(j)
  /\ \A i \in ArgumentChunkPositions :
       \E j \in ToolCallChunkPositions :
          /\ j < i
          /\ OriginOf(j).item.id = OriginOf(i).item_id
          /\ ToolCallIndexAt(j) = ToolCallIndexAt(i)
  /\ pc \in {"done", "translated"}
     => \A j \in ToolCallChunkPositions :
           \E k \in DOMAIN scenario.calls :
              /\ scenario.calls[k].call_id = written[j].chunk.delta.tool_call_id
              /\ AccumulatedUpTo(ToolCallIndexAt(j), Len(written))
                   = Concat(scenario.calls[k].pieces)

\* every tool_calls entry of the stream has index 0
AllAtIndexZero ==
  \A i \in ToolCallChunkPositions \cup ArgumentChunkPositions :
     ToolCallIndexAt(i) = 0

====
